---- MODULE Spec2Model ----
(***************************************************************************)
(* A model of the Google integration layer: the OAuth credential manager   *)
(* (auth.py) and the Drive / Docs / Gmail / Calendar clients built on it.  *)
(*                                                                         *)
(* The vendor libraries are the environment.  Their outcomes (a refresh    *)
(* that succeeds or is rejected, a local callback server that cannot       *)
(* start, a remote call that answers, answers non-2xx or never connects)   *)
(* are inputs drawn by the actions.                                        *)
(***************************************************************************)
EXTENDS Integers, Sequences, FiniteSets, TLC

VARIABLES
    creds,              \* GoogleAuthManager.creds: <<>> (None) or <<credential>>
    tokenFile,          \* the file at token_path: <<>> (absent) or <<stored record>>
    credentialsExists,  \* whether the file at credentials_path exists
    now,                \* the wall clock the credential's expiry is compared with
    nextToken,          \* the next access token the provider will issue
    autoExpire,         \* whether the installed google-auth treats a stored credential
                        \* without expiry as expired (newer releases) or as never expiring
    service,            \* each client's cached session handle(s), by slot
    everAsked,          \* the slots whose accessor has been called at least once
    remote,             \* what the Google services hold: files, documents, events
    authRan,            \* whether authenticate() has run on the manager since it was
                        \* constructed or last revoked
    procs,              \* the processes sharing the token file, each with a manager
                        \* of its own: where it is in a call, what it holds
    last                \* the record of the most recent call: what it did and how it ended

vars == <<creds, tokenFile, credentialsExists, now, nextToken, autoExpire, service,
          everAsked, remote, procs, authRan, last>>

----------------------------------------------------------------------------
(* Bounds of the model *)

\* the clock runs from 1 to MaxTime
MaxTime == 3
\* the provider issues access tokens 1..MaxTokens
MaxTokens == 3
\* a download is delivered in 1..MaxChunks chunks
MaxChunks == 2
\* a freshly issued access token expires TokenLifetime ticks after it was issued
TokenLifetime == 2

----------------------------------------------------------------------------
(* auth.py: the scope list and the credential *)

SCOPES ==
    {"drive", "documents", "gmail.readonly", "gmail.send", "gmail.modify"}

\* Scope sets a token file found on disk may list (written by this version of
\* the program, or by one with another scope list).
StoredScopeSets == {SCOPES, SCOPES \cup {"calendar"}, {"drive"}}

\* token = 0 and expiry = 0 stand for None; refresh_token is present or not.
NoCredentials == <<>>

\* Credentials.expired: an expiry is set and has passed.
Expired(c) == c.expiry # 0 /\ now >= c.expiry

\* Credentials.valid: a token is present and it has not expired.
Valid(c) == c.token # 0 /\ ~Expired(c)

\* The expiry a stored record loads with.
LoadedExpiry(info) == IF info.expiry = 0 /\ autoExpire THEN now ELSE info.expiry

\* Credentials.from_authorized_user_file(path, scopes): the stored fields, with the
\* scopes the caller passes taking the place of the ones the file lists.
from_authorized_user_file(info, scopes) ==
    [token |-> info.token, refresh_token |-> info.refresh_token,
     expiry |-> LoadedExpiry(info), scopes |-> scopes]

\* Credentials.to_json(): the record written to the token file.
to_json(c) ==
    [token |-> c.token, refresh_token |-> c.refresh_token,
     expiry |-> c.expiry, scopes |-> c.scopes]

\* creds.refresh(Request()) when the provider accepts: a new access token and expiry,
\* in place.
Refreshed(c, tok) == [c EXCEPT !.token = tok, !.expiry = now + TokenLifetime]

\* The credential an authorization-code exchange yields for a flow built with `scopes`.
Exchanged(scopes, tok) ==
    [token |-> tok, refresh_token |-> TRUE,
     expiry |-> now + TokenLifetime, scopes |-> scopes]

----------------------------------------------------------------------------
(* auth.py: GoogleAuthManager.authenticate *)

\* A text typed or pasted at a prompt: optional surrounding whitespace, the part
\* before any "?", and the query string as a sequence of <<key, value>> pairs.
Text(pad, path, query) == [pad |-> pad, path |-> path, query |-> query]

\* str.strip()
strip(t) == [t EXCEPT !.pad = FALSE]

\* `not text`: the empty string
IsEmptyText(t) == ~t.pad /\ t.path = "" /\ t.query = <<>>

\* The authorization code the provider issued, as it is pasted on its own.
BareCode == Text(FALSE, "4/0A", <<>>)

\* What a user may paste: nothing, blanks, the code, the code with a newline,
\* the redirect URL with the code, a redirect URL without one (the user
\* denied access), a redirect URL with an empty code parameter.
Pasted ==
    {Text(FALSE, "", <<>>), Text(TRUE, "", <<>>), BareCode, Text(TRUE, "4/0A", <<>>),
     Text(FALSE, "http://localhost/", <<<<"code", "4/0A">>, <<"scope", "s">>>>),
     Text(FALSE, "http://localhost/", <<<<"error", "access_denied">>>>),
     Text(FALSE, "http://localhost/", <<<<"code", "">>, <<"scope", "s">>>>)}

\* What the libraries may answer during one authenticate(): the refresh call, the
\* local-server flow, the exchange of a pasted code.  One call asks either for a
\* refresh or for a flow, and for the manual exchange only after the local server
\* failed; an answer that is never asked for is written "ok", a text that is
\* never prompted for is the bare code.  The provider accepts no text but the
\* code it issued; given an empty code, fetch_token either refuses it before
\* anything is sent or sends it and is turned down, depending on the library.
AuthEnv ==
    {e \in [refresh : {"ok", "error"},
            server  : {"ok", "no_browser", "exchange_error"},
            manual  : {"ok", "exchange_error", "refused"},
            pasted  : Pasted] :
        /\ e.refresh = "error" => e.server = "ok"
        /\ e.server = "ok" => e.manual = "ok" /\ e.pasted = BareCode
        /\ e.server = "exchange_error" => e.pasted = BareCode
        /\ e.manual = "ok" => strip(e.pasted) = BareCode
        /\ e.manual = "refused" <=> IsEmptyText(strip(e.pasted))}

QuietEnv == [refresh |-> "ok", server |-> "ok", manual |-> "ok", pasted |-> BareCode]

\* The answers a session accessor can come to ask for: none while a credential is
\* held; the text pasted at a prompt it leads to is the code.
LazyEnv(c) ==
    IF c = NoCredentials THEN {e \in AuthEnv : e.pasted = BareCode} ELSE {QuietEnv}

\* line 56: `not self.creds or not self.creds.valid`
NeedsAuth_negation_dropped(c) == c = NoCredentials \/ Valid(c[1])

NeedsAuth(c) == c = NoCredentials \/ ~Valid(c[1])

\* line 57 without `self.creds.expired`
CanRefresh_without_expired(c) == c # NoCredentials /\ c[1].refresh_token

\* line 57: `self.creds and self.creds.expired and self.creds.refresh_token`
CanRefresh(c) == c # NoCredentials /\ Expired(c[1]) /\ c[1].refresh_token

\* The manager's state threaded through a call.
Manager(c, f, t) == [creds |-> c, file |-> f, tok |-> t]

\* How a call of the manager ends: its state, the effects it had in order
\* (events), and the scope lists it passed to the library (requested).
AuthReturn(m, ev, rq) ==
    [m |-> m, outcome |-> "returned", error |-> "", events |-> ev, requested |-> rq]

AuthRaise(m, err, ev, rq) ==
    [m |-> m, outcome |-> "raised", error |-> err, events |-> ev, requested |-> rq]

\* lines 92-95: write the credential to the token file, then return it.
Save_skipped(m, c, ev, rq) ==
    AuthReturn(Manager(<<c>>, m.file, m.tok + 1), ev, rq)

Save(m, c, ev, rq) ==
    AuthReturn(Manager(<<c>>, <<to_json(c)>>, m.tok + 1), ev \o <<"write">>, rq)

\* flow.fetch_token(code=code): the exchange of a code for a credential.  An
\* empty code the library may refuse before sending; any other text is sent,
\* and the provider accepts the code it issued.
fetch_token(code, answer) ==
    IF answer = "refused" THEN [events |-> <<"fetch_token_error">>, error |-> "ValueError"]
    ELSE IF answer = "ok" /\ code = BareCode THEN [events |-> <<"exchange">>, error |-> ""]
    ELSE [events |-> <<"exchange", "exchange_error">>, error |-> "ExchangeError"]

\* lines 88-90: the text typed at the prompt, stripped, is exchanged as the code
\* whatever it is; an error of the exchange propagates.
ManualFlow(m, env, ev, rq) ==
    LET code == strip(env.pasted)
        f    == fetch_token(code, env.manual)
        ev1  == ev \o <<"print_url", "prompt">> \o f.events
    IN  IF f.error = ""
        THEN Save(m, Exchanged(SCOPES, m.tok), ev1, rq)
        ELSE AuthRaise(m, f.error, ev1, rq)

\* lines 74-90 without the try: the manual path taken at once.
InteractiveFlow_manual_first(m, env, ev, rq) ==
    ManualFlow(m, env, ev, rq)

\* lines 74-90: run_local_server first; whatever it raises starts the manual flow.
InteractiveFlow(m, env, ev, rq) ==
    LET ev1 == ev \o <<"local_server">>
    IN  CASE env.server = "ok" ->
                Save(m, Exchanged(SCOPES, m.tok), ev1 \o <<"exchange">>, rq)
          [] env.server = "no_browser" ->
                ManualFlow(m, env, ev1 \o <<"server_error">>, rq)
          [] OTHER ->
                ManualFlow(m, env, ev1 \o <<"exchange", "exchange_error">>, rq)

\* lines 63-72: the client-secret file is required before the flow is built.
NewCredentials_secrets_unchecked(m, env, ev, rq) ==
    InteractiveFlow(m, env, ev \o <<"read_secrets">>, rq \o <<SCOPES>>)

NewCredentials(m, env, ev, rq) ==
    IF ~credentialsExists
    THEN AuthRaise(m, "FileNotFoundError", ev, rq)
    ELSE InteractiveFlow(m, env, ev \o <<"read_secrets">>, rq \o <<SCOPES>>)

\* lines 58-60: refresh in place; an error of the refresh propagates.
RefreshPath_twice(m, env, ev, rq) ==
    LET ev1 == ev \o <<"refresh", "refresh">>
    IN  IF env.refresh = "ok"
        THEN Save(m, Refreshed(m.creds[1], m.tok), ev1, rq)
        ELSE AuthRaise(m, "RefreshError", ev1 \o <<"refresh_error">>, rq)

RefreshPath(m, env, ev, rq) ==
    LET ev1 == ev \o <<"refresh">>
    IN  IF env.refresh = "ok"
        THEN Save(m, Refreshed(m.creds[1], m.tok), ev1, rq)
        ELSE AuthRaise(m, "RefreshError", ev1 \o <<"refresh_error">>, rq)

\* lines 51-53: load the stored credential when the token file exists.
LoadStored_checking_scopes(m) ==
    IF m.file = <<>> THEN m
    ELSE IF m.file[1].scopes # SCOPES THEN [m EXCEPT !.creds = NoCredentials]
    ELSE [m EXCEPT !.creds = <<from_authorized_user_file(m.file[1], SCOPES)>>]

LoadStored(m) ==
    IF m.file # <<>>
    THEN [m EXCEPT !.creds = <<from_authorized_user_file(m.file[1], SCOPES)>>]
    ELSE m

\* lines 44-97
authenticate(m, env) ==
    LET m1 == LoadStored(m)
        ev == IF m.file # <<>> THEN <<"load">> ELSE <<>>
        rq == IF m.file # <<>> THEN <<SCOPES>> ELSE <<>>
    IN  IF ~NeedsAuth(m1.creds) THEN AuthReturn(m1, ev, rq)
        ELSE IF CanRefresh(m1.creds) THEN RefreshPath(m1, env, ev, rq)
        ELSE NewCredentials(m1, env, ev, rq)

\* lines 117-122
revoke_credentials_keep_creds(m) == Manager(m.creds, <<>>, m.tok)

revoke_credentials(m) == Manager(NoCredentials, <<>>, m.tok)

----------------------------------------------------------------------------
(* auth.py: the session accessors *)

\* lines 99-115: the accessors GoogleAuthManager defines, with the version each builds.
Accessors == [drive |-> "v3", docs |-> "v1", gmail |-> "v1"]

\* build(api, version, credentials=self.creds)
build(api, version, c) == [api |-> api, version |-> version, token |-> c[1].token]

AccessorResult(a, sess) ==
    [m |-> a.m, outcome |-> a.outcome, error |-> a.error, events |-> a.events,
     requested |-> a.requested, session |-> sess]

\* the accessors without `if not self.creds`
LazyAuthenticate_always(m, env) == authenticate(m, env)

\* `if not self.creds: self.authenticate()`
LazyAuthenticate(m, env) ==
    IF m.creds = NoCredentials THEN authenticate(m, env) ELSE AuthReturn(m, <<>>, <<>>)

\* get_drive_service / get_docs_service / get_gmail_service; any other accessor
\* name is not an attribute of the manager.
get_service(api, m, env) ==
    IF api \notin DOMAIN Accessors
    THEN AccessorResult(AuthRaise(m, "AttributeError", <<>>, <<>>), <<>>)
    ELSE LET a == LazyAuthenticate(m, env)
         IN  IF a.outcome = "raised"
             THEN AccessorResult(a, <<>>)
             ELSE AccessorResult(a, <<build(api, Accessors[api], a.m.creds)>>)

----------------------------------------------------------------------------
(* The clients: _ensure_service *)

Clients == {"drive", "docs", "gmail", "calendar"}

\* The session fields of each client, in the order _ensure_service fills them,
\* each with the accessor it calls.
ClientSlots ==
    [drive    |-> <<[slot |-> "drive.service", api |-> "drive"]>>,
     docs     |-> <<[slot |-> "docs.service", api |-> "docs"],
                    [slot |-> "docs.drive_service", api |-> "drive"]>>,
     gmail    |-> <<[slot |-> "gmail.service", api |-> "gmail"]>>,
     calendar |-> <<[slot |-> "calendar.service", api |-> "calendar"]>>]

Slots == {"drive.service", "docs.service", "docs.drive_service",
          "gmail.service", "calendar.service"}

EnsureResult(sv, m, outcome, error, ev, rq, asked) ==
    [service |-> sv, m |-> m, outcome |-> outcome, error |-> error,
     events |-> ev, requested |-> rq, asked |-> asked]

\* `if not self.service: self.service = self.auth.get_..._service()`, slot by slot;
\* an accessor that raises ends the operation.
RECURSIVE EnsureFrom_always_asking(_, _, _, _, _, _, _, _)
EnsureFrom_always_asking(slots, i, sv, m, env, ev, rq, asked) ==
    IF i > Len(slots) THEN EnsureResult(sv, m, "returned", "", ev, rq, asked)
    ELSE LET s == slots[i]
             g == get_service(s.api, m, env)
         IN  IF g.outcome = "raised"
             THEN EnsureResult(sv, g.m, "raised", g.error,
                               ev \o g.events, rq \o g.requested, asked \o <<s.api>>)
             ELSE EnsureFrom_always_asking(slots, i + 1,
                                           [sv EXCEPT ![s.slot] = g.session], g.m, env,
                                           ev \o g.events, rq \o g.requested,
                                           asked \o <<s.api>>)

RECURSIVE EnsureFrom(_, _, _, _, _, _, _, _)
EnsureFrom(slots, i, sv, m, env, ev, rq, asked) ==
    IF i > Len(slots) THEN EnsureResult(sv, m, "returned", "", ev, rq, asked)
    ELSE LET s == slots[i]
         IN  IF sv[s.slot] # <<>>
             THEN EnsureFrom(slots, i + 1, sv, m, env, ev, rq, asked)
             ELSE LET g == get_service(s.api, m, env)
                  IN  IF g.outcome = "raised"
                      THEN EnsureResult(sv, g.m, "raised", g.error,
                                        ev \o g.events, rq \o g.requested,
                                        asked \o <<s.api>>)
                      ELSE EnsureFrom(slots, i + 1,
                                      [sv EXCEPT ![s.slot] = g.session], g.m, env,
                                      ev \o g.events, rq \o g.requested,
                                      asked \o <<s.api>>)

ensure_service(client, sv, m, env) ==
    EnsureFrom(ClientSlots[client], 1, sv, m, env, <<>>, <<>>, <<>>)

\* The slots of a client whose accessor a run of _ensure_service called: the
\* manager has to define the accessor for it to be called.
Called(client, asked) ==
    {ClientSlots[client][i].slot : i \in
        {j \in DOMAIN ClientSlots[client] :
            /\ ClientSlots[client][j].api \in DOMAIN Accessors
            /\ \E k \in DOMAIN asked : asked[k] = ClientSlots[client][j].api}}

\* Whether a run of _ensure_service, or one accessor, ran authenticate(): an
\* accessor the manager defines was called while no credential was held.
AuthenticateRan(c, asked) ==
    c = NoCredentials /\ \E k \in DOMAIN asked : asked[k] \in DOMAIN Accessors

----------------------------------------------------------------------------
(* The clients: the remote calls of each domain operation *)

\* What one remote call (.execute() or next_chunk()) may do: answer, answer
\* non-2xx (googleapiclient's HttpError), or fail below HTTP (a connection or
\* timeout error of the transport, which is not an HttpError).
CallOutcomes == {"ok", "HttpError", "TransportError"}

\* The arguments that decide which remote calls an operation makes.
OpArgs == [folder : BOOLEAN, named : BOOLEAN, chunks : 1..MaxChunks]

DefaultArgs == [folder |-> FALSE, named |-> TRUE, chunks |-> 1]

Repeat(x, n) == [i \in 1..n |-> x]

\* drive_client.py
DriveCalls(op, a) ==
    CASE op = "list_files"        -> <<"files.list">>
      [] op = "search_files"      -> <<"files.list">>
      [] op = "get_file_metadata" -> <<"files.get">>
      [] op = "download_file"     -> Repeat("files.get_media.next_chunk", a.chunks)
      [] op = "upload_file"       -> <<"files.create">>
      [] op = "upload_content"    -> <<"files.create">>
      [] op = "create_folder"     -> <<"files.create">>
      [] op = "delete_file"       -> <<"files.delete">>
      [] op = "move_file"         -> <<"files.get", "files.update">>
      [] op = "share_file"        -> <<"permissions.create">>

\* docs_client.py
DocsCalls(op, a) ==
    CASE op = "create_document" ->
            IF a.folder THEN <<"documents.create", "files.update">>
            ELSE <<"documents.create">>
      [] op \in {"get_document", "read_document_text", "search_in_document"} ->
            <<"documents.get">>
      [] op \in {"append_text", "insert_text", "replace_text", "format_text",
                 "delete_content_range"} -> <<"documents.batchUpdate">>

\* gmail_client.py
GmailCalls(op, a) ==
    CASE op \in {"list_messages", "search_messages"} -> <<"messages.list">>
      [] op \in {"get_message", "get_message_body"} -> <<"messages.get">>
      [] op \in {"send_message", "send_message_with_attachment"} -> <<"messages.send">>
      [] op \in {"mark_as_read", "mark_as_unread"} -> <<"messages.modify">>
      [] op = "trash_message" -> <<"messages.trash">>
      [] op = "get_labels"    -> <<"labels.list">>
      [] op = "create_label"  -> <<"labels.create">>

\* calendar_client.py
CalendarCalls(op, a) ==
    CASE op = "list_calendars" -> <<"calendarList.list">>
      [] op = "list_events"    -> <<"events.list">>
      [] op = "create_event"   -> <<"events.insert">>
      [] op = "update_event"   -> <<"events.get", "events.update">>
      [] op = "delete_event"   -> <<"events.delete">>

DriveOps == {"list_files", "search_files", "get_file_metadata", "download_file",
             "upload_file", "upload_content", "create_folder", "delete_file",
             "move_file", "share_file"}

DocsOps == {"create_document", "get_document", "read_document_text", "append_text",
            "insert_text", "replace_text", "format_text", "search_in_document",
            "delete_content_range"}

GmailOps == {"list_messages", "get_message", "get_message_body", "search_messages",
             "send_message", "send_message_with_attachment", "mark_as_read",
             "mark_as_unread", "trash_message", "get_labels", "create_label"}

CalendarOps == {"list_calendars", "list_events", "create_event", "update_event",
                "delete_event"}

\* The operations that go through _ensure_service themselves and the ones that
\* reach it through the operation they delegate to make the same calls.
Calls(client, op, a) ==
    CASE client = "drive"    -> DriveCalls(op, a)
      [] client = "docs"     -> DocsCalls(op, a)
      [] client = "gmail"    -> GmailCalls(op, a)
      [] client = "calendar" -> CalendarCalls(op, a)

\* The arguments worth telling apart for an operation.
ArgsOf(client, op) ==
    CASE client = "docs" /\ op = "create_document" ->
            {[DefaultArgs EXCEPT !.folder = f] : f \in BOOLEAN}
      [] client = "drive" /\ op = "upload_file" ->
            {[DefaultArgs EXCEPT !.named = n] : n \in BOOLEAN}
      [] client = "drive" /\ op = "download_file" ->
            {[DefaultArgs EXCEPT !.chunks = k] : k \in 1..MaxChunks}
      [] OTHER -> {DefaultArgs}

\* drive_client.py line 166: upload_file without a name uses os.path.basename, and
\* the module does not import os.
LocalError(client, op, a) ==
    IF client = "drive" /\ op = "upload_file" /\ ~a.named THEN "NameError" ELSE ""

Made(name, out) == [name |-> name, out |-> out]

\* The calls of one operation in order inside its try block: the first one that
\* fails raises, and nothing after it runs.
RECURSIVE Execute_retrying(_, _, _)
Execute_retrying(calls, outs, i) ==
    IF i > Len(calls) THEN <<>>
    ELSE IF outs[i] = "ok"
         THEN <<Made(calls[i], "ok")>> \o Execute_retrying(calls, outs, i + 1)
         ELSE <<Made(calls[i], outs[i]), Made(calls[i], outs[i])>>

RECURSIVE Execute(_, _, _)
Execute(calls, outs, i) ==
    IF i > Len(calls) THEN <<>>
    ELSE IF outs[i] = "ok"
         THEN <<Made(calls[i], "ok")>> \o Execute(calls, outs, i + 1)
         ELSE <<Made(calls[i], outs[i])>>

\* The failure the try block ends with, if any.
Failure(made) ==
    IF made # <<>> /\ made[Len(made)].out # "ok" THEN made[Len(made)].out ELSE ""

\* `except HttpError as error: print(...); raise`: only an HttpError is caught
\* (and printed); either kind of failure leaves the operation as an exception.
Handled(made) ==
    [outcome |-> IF Failure(made) = "" THEN "returned" ELSE "raised",
     error   |-> Failure(made),
     logged  |-> Failure(made) = "HttpError"]

----------------------------------------------------------------------------
(* What the Google services hold, and what the remote calls do to it *)

\* A Drive file: a Google document is a Drive file too.  An id is the file's
\* position in `files`; `parents` are folder ids, 0 being the root of My Drive.
File(kind, name, content, body, parents) ==
    [kind |-> kind, name |-> name, content |-> content, body |-> body,
     parents |-> parents]

EmptyRemote == [files |-> <<>>, events |-> <<>>, messages |-> <<>>]

\* What one run of an operation's try block leaves: the calls it made, the
\* remote state after them, the requests it sent and the value it returns.
Ran(made, r, request, result) ==
    [made |-> made, remote |-> r, request |-> request, result |-> result]

\* files().update(fileId, addParents, removeParents) on the remote side
files_update(r, id, add, remove) ==
    [r EXCEPT !.files[id].parents = (@ \ remove) \cup add]

\* docs_client.py lines 33-62, the try block: documents().create(body={'title'}),
\* then, `if folder_id`, drive files().update(fileId=doc_id, addParents=folder_id).
create_document(r, title, folder_id, outs) ==
    LET doc_id  == Len(r.files) + 1
        created == [r EXCEPT !.files = Append(@, File("document", title, <<>>, <<>>, {0}))]
        create  == Made("documents.create", outs[1])
        update  == Made("files.update", outs[2])
    IN  IF outs[1] # "ok" THEN Ran(<<create>>, r, <<title>>, <<>>)
        ELSE IF folder_id = <<>> THEN Ran(<<create>>, created, <<title>>, <<doc_id>>)
        ELSE IF outs[2] # "ok"
        THEN Ran(<<create, update>>, created, <<title, folder_id[1]>>, <<>>)
        ELSE Ran(<<create, update>>, files_update(created, doc_id, {folder_id[1]}, {}),
                 <<title, folder_id[1]>>, <<doc_id>>)

\* drive_client.py lines 280-310, the try block: files().get(fields='parents'),
\* then files().update(addParents=new_parent_id, removeParents=previous parents).
move_file(r, file_id, new_parent_id, outs) ==
    LET get              == Made("files.get", outs[1])
        update           == Made("files.update", outs[2])
        previous_parents == r.files[file_id].parents
    IN  IF outs[1] # "ok" THEN Ran(<<get>>, r, <<file_id>>, <<>>)
        ELSE IF outs[2] # "ok" THEN Ran(<<get, update>>, r, <<file_id>>, <<>>)
        ELSE Ran(<<get, update>>,
                 files_update(r, file_id, {new_parent_id}, previous_parents),
                 <<file_id>>, <<file_id>>)

\* value.isoformat() of a datetime
isoformat(value) == <<"iso", value.datetime>>

IsDatetime(value) == DOMAIN value = {"datetime"}

\* calendar_client.py lines 132-136: what one keyword argument stores in the event.
Stored(key, value) ==
    IF key \in {"start", "end"} /\ IsDatetime(value)
    THEN [dateTime |-> isoformat(value), timeZone |-> "UTC"]
    ELSE value

\* calendar_client.py lines 128-136: the fetched event with the kwargs written in.
Merged(event, kwargs) ==
    [key \in DOMAIN event \cup DOMAIN kwargs |->
        IF key \in DOMAIN kwargs THEN Stored(key, kwargs[key]) ELSE event[key]]

\* calendar_client.py lines 127-142, the try block: events().get, the merge,
\* events().update(body=event); the remote answers with the event it stored.
update_event(r, event_id, kwargs, outs) ==
    LET get    == Made("events.get", outs[1])
        update == Made("events.update", outs[2])
        event  == Merged(r.events[event_id], kwargs)
    IN  IF outs[1] # "ok" THEN Ran(<<get>>, r, <<>>, <<>>)
        ELSE IF outs[2] # "ok" THEN Ran(<<get, update>>, r, <<event>>, <<>>)
        ELSE Ran(<<get, update>>, [r EXCEPT !.events[event_id] = event],
                 <<event>>, <<event>>)

\* The answer of a remote list call: the remote splits its listing into pages
\* and answers with the first one, plus a nextPageToken when more follow.
ListResponse(pages) ==
    [items |-> IF pages = <<>> THEN <<>> ELSE pages[1],
     nextPageToken |-> Len(pages) > 1]

\* One list call inside its try block, and `return results.get(<key>, [])`.
list_call(name, r, request, pages, outs) ==
    IF outs[1] # "ok" THEN Ran(<<Made(name, outs[1])>>, r, request, <<>>)
    ELSE Ran(<<Made(name, "ok")>>, r, request, ListResponse(pages).items)

\* drive_client.py lines 33-61; the query is <<>> (None) or <<string>>
list_files(r, query, pages, outs) == list_call("files.list", r, query, pages, outs)

\* gmail_client.py lines 35-62
list_messages(r, query, pages, outs) ==
    list_call("messages.list", r, <<query>>, pages, outs)

\* calendar_client.py lines 34-68
list_events(r, pages, outs) == list_call("events.list", r, <<>>, pages, outs)

\* calendar_client.py lines 24-32
list_calendars(r, pages, outs) == list_call("calendarList.list", r, <<>>, pages, outs)

\* An optional argument is <<>> (None) or <<value>>; Python's `if value:` is
\* false for None, for the empty string and for False.
TruthyString(v) == v # <<>> /\ v[1] # ""

TruthyBool(v) == v # <<>> /\ v[1]

\* sep.join(parts)
RECURSIVE join_after_each(_, _)
join_after_each(sep, parts) ==
    IF parts = <<>> THEN "" ELSE parts[1] \o sep \o join_after_each(sep, Tail(parts))

RECURSIVE join(_, _)
join(sep, parts) ==
    IF parts = <<>> THEN ""
    ELSE IF Len(parts) = 1 THEN parts[1]
    ELSE parts[1] \o sep \o join(sep, Tail(parts))

\* `if <test>: query_parts.append(<clause>)`
Part(test, clause) == IF test THEN <<clause>> ELSE <<>>

\* drive_client.py lines 77-88 passing an empty query where no clause is present.
FilesQuery_empty_string(c) ==
    LET query_parts ==
            Part(TruthyString(c.name_contains),
                 "name contains '" \o c.name_contains[1] \o "'")
            \o Part(TruthyString(c.mime_type), "mimeType = '" \o c.mime_type[1] \o "'")
            \o Part(TruthyString(c.folder_id), "'" \o c.folder_id[1] \o "' in parents")
            \o Part(~c.trashed, "trashed = false")
    IN  <<join(" and ", query_parts)>>

\* drive_client.py lines 77-88: the query search_files passes to list_files,
\* <<>> being None.
FilesQuery(c) ==
    LET query_parts ==
            Part(TruthyString(c.name_contains),
                 "name contains '" \o c.name_contains[1] \o "'")
            \o Part(TruthyString(c.mime_type), "mimeType = '" \o c.mime_type[1] \o "'")
            \o Part(TruthyString(c.folder_id), "'" \o c.folder_id[1] \o "' in parents")
            \o Part(~c.trashed, "trashed = false")
    IN  IF query_parts # <<>> THEN <<join(" and ", query_parts)>> ELSE <<>>

\* drive_client.py lines 63-89
search_files(r, c, pages, outs) == list_files(r, FilesQuery(c), pages, outs)

\* gmail_client.py lines 146-163: the query search_messages passes to list_messages.
MessagesQuery(c) ==
    join(" ",
         Part(TruthyString(c.from_email), "from:" \o c.from_email[1])
         \o Part(TruthyString(c.to_email), "to:" \o c.to_email[1])
         \o Part(TruthyString(c.subject), "subject:" \o c.subject[1])
         \o Part(TruthyString(c.after_date), "after:" \o c.after_date[1])
         \o Part(TruthyString(c.before_date), "before:" \o c.before_date[1])
         \o Part(TruthyBool(c.has_attachment), "has:attachment")
         \o Part(TruthyBool(c.is_unread), "is:unread"))

\* gmail_client.py lines 127-164
search_messages(r, c, pages, outs) == list_messages(r, MessagesQuery(c), pages, outs)

\* str.encode('utf-8') of a string given as its code points (below 2048)
utf8_char(cp) == IF cp < 128 THEN <<cp>> ELSE <<192 + (cp \div 64), 128 + (cp % 64)>>

RECURSIVE encode_utf8(_)
encode_utf8(s) == IF s = <<>> THEN <<>> ELSE utf8_char(Head(s)) \o encode_utf8(Tail(s))

\* A content argument is <<"str", code points>> or <<"bytes", bytes>>.
\* drive_client.py lines 207-208: `if isinstance(content, str): content = content.encode('utf-8')`
AsBytes(content) == IF content[1] = "str" THEN encode_utf8(content[2]) ELSE content[2]

\* drive_client.py lines 191-230: upload_content; files().create(body, media_body)
\* stores the bytes of the media body under a new id, in the named folder or the root.
upload_content(r, content, name, folder_id, outs) ==
    LET id      == Len(r.files) + 1
        parents == IF folder_id # <<>> THEN {folder_id[1]} ELSE {0}
        file    == File("file", name, AsBytes(content), <<>>, parents)
        create  == Made("files.create", outs[1])
    IN  IF outs[1] # "ok" THEN Ran(<<create>>, r, <<name>>, <<>>)
        ELSE Ran(<<create>>, [r EXCEPT !.files = Append(@, file)], <<name>>,
                 <<[id |-> id, name |-> name]>>)

\* The i-th of the chunks a download is delivered in: the bytes after cut i-1
\* up to cut i, the last chunk running to the end.
Chunk(bytes, cuts, i) ==
    SubSeq(bytes, (IF i = 1 THEN 0 ELSE cuts[i - 1]) + 1,
                  IF i > Len(cuts) THEN Len(bytes) ELSE cuts[i])

\* drive_client.py lines 131-135: `while not done: status, done = downloader.next_chunk()`,
\* each chunk written to file_data by the downloader; a chunk that fails raises.
RECURSIVE next_chunks_keeping_last(_, _, _, _, _, _)
next_chunks_keeping_last(bytes, cuts, outs, i, file_data, made) ==
    LET call == Made("files.get_media.next_chunk", outs[i])
    IN  IF outs[i] # "ok" THEN [made |-> Append(made, call), file_data |-> file_data]
        ELSE IF i > Len(cuts)
        THEN [made |-> Append(made, call), file_data |-> Chunk(bytes, cuts, i)]
        ELSE next_chunks_keeping_last(bytes, cuts, outs, i + 1,
                                      Chunk(bytes, cuts, i), Append(made, call))

RECURSIVE next_chunks(_, _, _, _, _, _)
next_chunks(bytes, cuts, outs, i, file_data, made) ==
    LET call == Made("files.get_media.next_chunk", outs[i])
    IN  IF outs[i] # "ok" THEN [made |-> Append(made, call), file_data |-> file_data]
        ELSE IF i > Len(cuts)
        THEN [made |-> Append(made, call),
              file_data |-> file_data \o Chunk(bytes, cuts, i)]
        ELSE next_chunks(bytes, cuts, outs, i + 1,
                         file_data \o Chunk(bytes, cuts, i), Append(made, call))

\* drive_client.py lines 113-147 with no destination: `content = file_data.getvalue()`
download_file(r, file_id, cuts, outs) ==
    LET d == next_chunks(r.files[file_id].content, cuts, outs, 1, <<>>, <<>>)
    IN  IF Failure(d.made) # "" THEN Ran(d.made, r, <<file_id>>, <<>>)
        ELSE Ran(d.made, r, <<file_id>>, d.file_data)

\* A structural element of a document body: a paragraph with its elements, or
\* a table whose cells hold paragraphs of their own, or a section break.
Paragraph(elements) == [type |-> "paragraph", elements |-> elements, cells |-> <<>>]

Table(cells) == [type |-> "table", elements |-> <<>>, cells |-> cells]

SectionBreak == [type |-> "sectionBreak", elements |-> <<>>, cells |-> <<>>]

\* An element of a paragraph: a text run, or an inline object (an image).
TextRun(content) == [kind |-> "textRun", content |-> content]

InlineObject == [kind |-> "inlineObjectElement", content |-> ""]

\* docs_client.py lines 99-101: the inner loop over one paragraph's elements.
RECURSIVE RunsFrom(_, _, _)
RunsFrom(elements, i, text_parts) ==
    IF i > Len(elements) THEN text_parts
    ELSE RunsFrom(elements, i + 1,
                  IF elements[i].kind = "textRun"
                  THEN Append(text_parts, elements[i].content) ELSE text_parts)

\* docs_client.py lines 97-101: the loop over the body's content.
RECURSIVE PartsFrom_entering_tables(_, _, _)
PartsFrom_entering_tables(content, i, text_parts) ==
    IF i > Len(content) THEN text_parts
    ELSE PartsFrom_entering_tables(content, i + 1,
            IF content[i].type = "paragraph"
            THEN RunsFrom(content[i].elements, 1, text_parts)
            ELSE PartsFrom_entering_tables(content[i].cells, 1, text_parts))

RECURSIVE PartsFrom(_, _, _)
PartsFrom(content, i, text_parts) ==
    IF i > Len(content) THEN text_parts
    ELSE PartsFrom(content, i + 1,
                   IF content[i].type = "paragraph"
                   THEN RunsFrom(content[i].elements, 1, text_parts)
                   ELSE text_parts)

\* docs_client.py lines 93-103, after get_document: ''.join(text_parts)
ExtractText(body) == join("", PartsFrom(body, 1, <<>>))

\* docs_client.py lines 83-103: get_document (documents().get) and the extraction.
read_document_text(r, document_id, outs) ==
    LET get == Made("documents.get", outs[1])
    IN  IF outs[1] # "ok" THEN Ran(<<get>>, r, <<document_id>>, <<>>)
        ELSE Ran(<<get>>, r, <<document_id>>,
                 <<ExtractText(r.files[document_id].body)>>)

\* str.find(sub, start): the lowest index at or after start where sub occurs,
\* -1 when there is none; indexes count from 0.
find(text, sub, start) ==
    LET found == {i \in start..(Len(text) - Len(sub)) :
                     SubSeq(text, i + 1, i + Len(sub)) = sub}
    IN  IF found = {} THEN -1
        ELSE CHOOSE i \in found : \A j \in found : i <= j

\* docs_client.py lines 275-286 resuming the search after the end of a match.
RECURSIVE matches_from_after_match(_, _, _, _)
matches_from_after_match(text, search_term, start, matches) ==
    LET index == find(text, search_term, start)
    IN  IF index = -1 THEN matches
        ELSE matches_from_after_match(
                 text, search_term,
                 index + (IF search_term = "" THEN 1 ELSE Len(search_term)),
                 Append(matches, [text |-> search_term, start_index |-> index,
                                  end_index |-> index + Len(search_term)]))

\* docs_client.py lines 275-286: the loop, resuming one past the start of each
\* match.
RECURSIVE matches_from(_, _, _, _)
matches_from(text, search_term, start, matches) ==
    LET index == find(text, search_term, start)
    IN  IF index = -1 THEN matches
        ELSE matches_from(text, search_term, index + 1,
                          Append(matches, [text |-> search_term, start_index |-> index,
                                           end_index |-> index + Len(search_term)]))

\* docs_client.py lines 261-288: read_document_text, whose error propagates,
\* then the loop over its text.
search_in_document(r, document_id, search_term, outs) ==
    LET read == read_document_text(r, document_id, outs)
    IN  IF read.result = <<>> THEN read
        ELSE Ran(read.made, read.remote, read.request,
                 <<matches_from(read.result[1], search_term, 0, <<>>)>>)

\* The remote side of insertText at index 1: index 1 is the start of the body,
\* so the text becomes the first run of the first paragraph (of a new first
\* paragraph when the body has none).
RECURSIVE InsertAtStart(_, _)
InsertAtStart(body, text) ==
    IF body = <<>> THEN <<Paragraph(<<TextRun(text)>>)>>
    ELSE IF body[1].type = "paragraph"
    THEN <<Paragraph(<<TextRun(text)>> \o body[1].elements)>> \o Tail(body)
    ELSE <<body[1]>> \o InsertAtStart(Tail(body), text)

\* docs_client.py lines 105-137: one batchUpdate with
\* insertText {location: {index: 1}, text: text}.
append_text(r, document_id, text, outs) ==
    LET update  == Made("documents.batchUpdate", outs[1])
        request == [insertText |-> [location |-> [index |-> 1], text |-> text]]
    IN  IF outs[1] # "ok" THEN Ran(<<update>>, r, <<request>>, <<>>)
        ELSE Ran(<<update>>,
                 [r EXCEPT !.files[document_id].body = InsertAtStart(@, text)],
                 <<request>>, <<document_id>>)

\* A part of a message payload.  `data` is <<>> (no or empty body data) or the
\* URL-safe base64 encoding of a text, `parts` is <<>> (no 'parts' key) or
\* <<the sub-parts>>.
Leaf(mimeType, text) ==
    [mimeType |-> mimeType,
     data |-> IF text = "" THEN <<>> ELSE <<"b64", text>>, parts |-> <<>>]

Multipart(mimeType, parts) == [mimeType |-> mimeType, data |-> <<>>, parts |-> <<parts>>]

\* base64.urlsafe_b64decode(data).decode('utf-8')
urlsafe_b64decode(data) == data[2]

\* gmail_client.py lines 101-111: parse_parts
RECURSIVE parse_parts(_, _, _)
parse_parts(parts, i, text) ==
    IF i > Len(parts) THEN text
    ELSE LET part == parts[i]
         IN  IF part.mimeType = "text/plain"
             THEN parse_parts(parts, i + 1,
                              IF part.data # <<>>
                              THEN Append(text, urlsafe_b64decode(part.data)) ELSE text)
             ELSE IF part.parts # <<>>
             THEN parse_parts(parts, i + 1, text \o parse_parts(part.parts[1], 1, <<>>))
             ELSE parse_parts(parts, i + 1, text)

\* gmail_client.py lines 113-125: the payload with or without 'parts'.
BodyOf(payload) ==
    IF payload.parts # <<>> THEN join("\n", parse_parts(payload.parts[1], 1, <<>>))
    ELSE IF payload.data # <<>> THEN urlsafe_b64decode(payload.data)
    ELSE ""

\* gmail_client.py lines 89-125: get_message (messages().get) and the extraction.
get_message_body(r, message_id, outs) ==
    LET get == Made("messages.get", outs[1])
    IN  IF outs[1] # "ok" THEN Ran(<<get>>, r, <<message_id>>, <<>>)
        ELSE Ran(<<get>>, r, <<message_id>>, <<BodyOf(r.messages[message_id])>>)

----------------------------------------------------------------------------
(* The record of a call *)

Idle ==
    [op |-> "", api |-> "", outcome |-> "none", error |-> "",
     events |-> <<>>, requested |-> <<>>, asked |-> <<>>,
     callsOf |-> <<>>, calls |-> <<>>, outs |-> <<>>, logged |-> FALSE,
     preFile |-> <<>>, preCreds |-> <<>>, loaded |-> <<>>,
     session |-> <<>>, again |-> FALSE,
     input |-> <<>>, request |-> <<>>, result |-> <<>>, reasked |-> FALSE]

Count(s, e) == Cardinality({i \in DOMAIN s : s[i] = e})

Has(s, e) == \E i \in DOMAIN s : s[i] = e

\* self.creds as line 56 finds it, for a call in which authenticate() ran.
AtLine56(m, ran) == IF ran THEN LoadStored(m).creds ELSE <<>>

----------------------------------------------------------------------------
(* The state machine *)

StoredCredentials ==
    [token : {0, 1}, refresh_token : BOOLEAN, expiry : {0, 1, 2},
     scopes : StoredScopeSets]

\* The token files the client runs start from: none, a valid one, an expired one.
ClientStoredCredentials ==
    {[token |-> 1, refresh_token |-> TRUE, expiry |-> e, scopes |-> SCOPES] :
        e \in {1, 2}}

\* The processes that share one token path.
Procs == {1, 2}

\* A process that has constructed its manager (line 42: self.creds = None) and
\* is in no call.
IdleProc ==
    [pc |-> "idle", creds |-> NoCredentials, op |-> "", path |-> "",
     outcome |-> "none", error |-> "", read |-> <<>>, wrote |-> FALSE]

InitWith(stored, libraries, remotes) ==
    /\ creds = NoCredentials
    /\ autoExpire \in libraries
    /\ tokenFile \in {<<>>} \cup {<<s>> : s \in stored}
    /\ credentialsExists \in BOOLEAN
    /\ now = 1
    /\ nextToken = 2
    /\ service = [s \in Slots |-> <<>>]
    /\ everAsked = {}
    /\ remote \in remotes
    /\ procs = [p \in Procs |-> IdleProc]
    /\ authRan = FALSE
    /\ last = Idle

Init == InitWith(StoredCredentials, BOOLEAN, {EmptyRemote})

InitClients == InitWith(ClientStoredCredentials, {TRUE}, {EmptyRemote})

\* The clock advances.
Tick ==
    /\ now < MaxTime
    /\ now' = now + 1
    /\ last' = Idle
    /\ UNCHANGED <<procs, authRan, creds, tokenFile, credentialsExists, nextToken,
                   autoExpire, service, everAsked, remote>>

Authenticate ==
    /\ nextToken <= MaxTokens
    /\ \E env \in AuthEnv :
         LET m0 == Manager(creds, tokenFile, nextToken)
             r  == [m0 |-> m0] @@ authenticate(m0, env)
         IN  /\ creds' = r.m.creds
             /\ tokenFile' = r.m.file
             /\ nextToken' = r.m.tok
             /\ last' = [Idle EXCEPT !.op = "authenticate",
                                     !.outcome = r.outcome, !.error = r.error,
                                     !.events = r.events, !.requested = r.requested,
                                     !.preFile = tokenFile, !.preCreds = creds,
                                     !.loaded = AtLine56(r.m0, TRUE),
                                     !.input = IF Has(r.events, "prompt")
                                               THEN <<env.pasted>> ELSE <<>>]
    /\ authRan' = TRUE
    /\ UNCHANGED <<procs, credentialsExists, now, autoExpire, service, everAsked, remote>>

RevokeCredentials ==
    /\ LET m == revoke_credentials(Manager(creds, tokenFile, nextToken))
       IN  /\ creds' = m.creds
           /\ tokenFile' = m.file
           /\ last' = [Idle EXCEPT !.op = "revoke_credentials",
                                   !.outcome = "returned",
                                   !.events = IF tokenFile # <<>>
                                              THEN <<"remove">> ELSE <<>>,
                                   !.preFile = tokenFile, !.preCreds = creds,
                                   !.again = (last.op = "revoke_credentials")]
    /\ authRan' = FALSE
    /\ UNCHANGED <<procs, credentialsExists, now, nextToken, autoExpire, service, everAsked,
                   remote>>

\* A caller asks the manager for a session itself.
GetService ==
    /\ nextToken <= MaxTokens
    /\ \E api \in DOMAIN Accessors, env \in LazyEnv(creds) :
         LET g == get_service(api, Manager(creds, tokenFile, nextToken), env)
         IN  /\ creds' = g.m.creds
             /\ tokenFile' = g.m.file
             /\ nextToken' = g.m.tok
             /\ last' = [Idle EXCEPT !.op = "get_service", !.api = api,
                                     !.outcome = g.outcome, !.error = g.error,
                                     !.events = g.events, !.requested = g.requested,
                                     !.asked = <<api>>,
                                     !.preFile = tokenFile, !.preCreds = creds,
                                     !.loaded = AtLine56(Manager(creds, tokenFile, nextToken),
                                                         creds = NoCredentials),
                                     !.session = g.session]
    /\ authRan' = (authRan \/ AuthenticateRan(creds, <<last'.api>>))
    /\ UNCHANGED <<procs, credentialsExists, now, autoExpire, service, everAsked, remote>>

\* The caller takes the result of a client operation; `last` is cleared.
TakeResult ==
    /\ last # Idle
    /\ last' = Idle
    /\ UNCHANGED <<procs, authRan, creds, tokenFile, credentialsExists, now, nextToken,
                   autoExpire, service, everAsked, remote>>

\* One domain operation of a client, from _ensure_service to its return or raise.
\* It starts once the result of the previous call has been taken, so that the
\* record of one call does not multiply the states the next one starts from.
Operation(client, op) ==
    /\ last = Idle
    /\ nextToken <= MaxTokens
    /\ \E a \in ArgsOf(client, op), env \in LazyEnv(creds) :
       \E outs \in [1..Len(Calls(client, op, a)) -> CallOutcomes] :
         LET e    == ensure_service(client, service,
                                    Manager(creds, tokenFile, nextToken), env)
             made == IF e.outcome = "raised" \/ LocalError(client, op, a) # ""
                     THEN <<>>
                     ELSE Execute(Calls(client, op, a), outs, 1)
             h    == Handled(made)
             rec  == [Idle EXCEPT !.op = op, !.api = client,
                                  !.events = e.events, !.requested = e.requested,
                                  !.asked = e.asked,
                                  !.reasked = Called(client, e.asked) \cap everAsked # {},
                                  !.preFile = tokenFile, !.preCreds = creds,
                                  !.loaded = AtLine56(Manager(creds, tokenFile, nextToken),
                                                      creds = NoCredentials
                                                      /\ e.asked # <<>>
                                                      /\ e.asked[1] \in DOMAIN Accessors)]
         IN  /\ creds' = e.m.creds
             /\ tokenFile' = e.m.file
             /\ nextToken' = e.m.tok
             /\ service' = e.service
             /\ everAsked' = everAsked \cup Called(client, e.asked)
             /\ authRan' = (authRan \/ AuthenticateRan(creds, e.asked))
             /\ last' =
                  IF e.outcome = "raised"
                  THEN [rec EXCEPT !.outcome = "raised", !.error = e.error]
                  ELSE IF LocalError(client, op, a) # ""
                  THEN [rec EXCEPT !.outcome = "raised",
                                   !.error = LocalError(client, op, a)]
                  ELSE [rec EXCEPT !.outcome = h.outcome, !.error = h.error,
                                   !.callsOf = Calls(client, op, a),
                                   !.calls = made,
                                   !.outs = SubSeq(outs, 1, Len(outs)),
                                   !.logged = h.logged]
    /\ UNCHANGED <<procs, credentialsExists, now, autoExpire, remote>>

DriveOperation == \E op \in DriveOps : Operation("drive", op)

DocsOperation == \E op \in DocsOps : Operation("docs", op)

GmailOperation == \E op \in GmailOps : Operation("gmail", op)

CalendarOperation == \E op \in CalendarOps : Operation("calendar", op)

\* The operation a client constructed on the spot is used for.
FirstOperation ==
    [drive |-> "list_files", docs |-> "get_document", gmail |-> "list_messages",
     calendar |-> "list_events"]

\* `self.auth = auth_manager or GoogleAuthManager()`: a client constructed
\* without a manager creates one of its own, which holds no credential and has
\* the default token path; the client's operation acquires its session from
\* that manager.  The shared manager and the clients built on it take no part.
OwnManagerOperation ==
    /\ last = Idle
    /\ nextToken <= MaxTokens
    /\ \E client \in Clients, env \in LazyEnv(NoCredentials), out \in CallOutcomes :
       \E e \in {ensure_service(client, [s \in Slots |-> <<>>],
                                 Manager(NoCredentials, tokenFile, nextToken), env)} :
         LET op   == FirstOperation[client]
             made == Execute(Calls(client, op, DefaultArgs), [i \in 1..1 |-> out], 1)
             h    == Handled(made)
             rec  == [Idle EXCEPT !.op = op, !.api = "own_manager",
                                  !.input = <<client>>,
                                  !.events = e.events, !.requested = e.requested,
                                  !.asked = e.asked,
                                  !.preFile = tokenFile, !.preCreds = creds]
         IN  /\ tokenFile' = e.m.file
             /\ nextToken' = e.m.tok
             /\ last' = IF e.outcome = "raised"
                        THEN [rec EXCEPT !.outcome = "raised", !.error = e.error]
                        ELSE [rec EXCEPT !.outcome = h.outcome, !.error = h.error,
                                         !.calls = made, !.logged = h.logged]
    /\ UNCHANGED <<procs, authRan, creds, credentialsExists, now, autoExpire, service,
                   everAsked, remote>>

\* The manager on its own: every token file, every library answer.
Next ==
    \/ Tick
    \/ Authenticate
    \/ RevokeCredentials
    \/ GetService

Spec == Init /\ [][Next]_vars

\* The clients on one shared manager.
NextClients ==
    \/ Tick
    \/ TakeResult
    \/ RevokeCredentials
    \/ DriveOperation
    \/ DocsOperation
    \/ GmailOperation
    \/ CalendarOperation

SpecClients == InitClients /\ [][NextClients]_vars

\* The caller authenticates the shared manager itself, as the integration test
\* does before it constructs the clients.
ExplicitAuthenticate == last = Idle /\ Authenticate

\* One operation of a client built on the shared manager.
SharedOperation == \E client \in Clients : Operation(client, FirstOperation[client])

\* Several clients on one shared manager, next to clients with a manager of
\* their own.
NextShared ==
    \/ Tick
    \/ TakeResult
    \/ ExplicitAuthenticate
    \/ RevokeCredentials
    \/ SharedOperation
    \/ OwnManagerOperation

SpecShared == InitClients /\ [][NextShared]_vars

----------------------------------------------------------------------------
(* The clients against the remote services *)

\* the remote store holds at most MaxFiles files
MaxFiles == 3

\* The remote services as the runs below find them: a folder, a file in the
\* root, and one calendar event.
StartRemote ==
    [files  |-> <<File("folder", "F", <<>>, <<>>, {0}),
                  File("file", "f", <<>>, <<>>, {0})>>,
     events |-> <<[summary |-> "s", start |-> [date |-> 1], end |-> [date |-> 2]]>>,
     messages |-> <<>>]

InitRemote == InitWith(ClientStoredCredentials, {TRUE}, {StartRemote})

Folders(r) == {i \in DOMAIN r.files : r.files[i].kind = "folder"}

\* A domain operation from _ensure_service to its return or raise: e is what
\* _ensure_service did, p what the try block did after it.
Conclude(client, op, e, input, p) ==
    LET m0  == Manager(creds, tokenFile, nextToken)
        h   == Handled(p.made)
        rec == [Idle EXCEPT !.op = op, !.api = client,
                            !.events = e.events, !.requested = e.requested,
                            !.asked = e.asked,
                            !.reasked = Called(client, e.asked) \cap everAsked # {},
                            !.preFile = tokenFile, !.preCreds = creds,
                            !.loaded = AtLine56(m0, creds = NoCredentials
                                                    /\ e.asked # <<>>
                                                    /\ e.asked[1] \in DOMAIN Accessors),
                            !.input = input]
    IN  /\ creds' = e.m.creds
        /\ tokenFile' = e.m.file
        /\ nextToken' = e.m.tok
        /\ service' = e.service
        /\ everAsked' = everAsked \cup Called(client, e.asked)
        /\ authRan' = (authRan \/ AuthenticateRan(creds, e.asked))
        /\ remote' = IF e.outcome = "raised" THEN remote ELSE p.remote
        /\ last' = IF e.outcome = "raised"
                   THEN [rec EXCEPT !.outcome = "raised", !.error = e.error]
                   ELSE [rec EXCEPT !.outcome = h.outcome, !.error = h.error,
                                    !.calls = p.made, !.logged = h.logged,
                                    !.request = p.request, !.result = p.result]
        /\ UNCHANGED <<procs, credentialsExists, now, autoExpire>>

Ensured(client, env) ==
    ensure_service(client, service, Manager(creds, tokenFile, nextToken), env)

CreateDocument ==
    /\ last = Idle
    /\ nextToken <= MaxTokens
    /\ Len(remote.files) < MaxFiles
    /\ \E folder_id \in {<<>>} \cup {<<f>> : f \in Folders(remote)},
          env \in LazyEnv(creds), outs \in [1..2 -> CallOutcomes] :
         Conclude("docs", "create_document", Ensured("docs", env), <<"T", folder_id>>,
                  create_document(remote, "T", folder_id, outs))

MoveFile ==
    /\ last = Idle
    /\ nextToken <= MaxTokens
    /\ \E file_id \in DOMAIN remote.files, new_parent_id \in Folders(remote),
          env \in LazyEnv(creds), outs \in [1..2 -> CallOutcomes] :
         Conclude("drive", "move_file", Ensured("drive", env),
                  <<file_id, new_parent_id>>,
                  move_file(remote, file_id, new_parent_id, outs))

\* The keyword arguments of update_event the runs draw from.
EventFields ==
    {<<>>, [summary |-> "t"], [start |-> [datetime |-> 3]],
     [summary |-> "t", end |-> [datetime |-> 4]], [start |-> [date |-> 5]]}

UpdateEvent ==
    /\ last = Idle
    /\ nextToken <= MaxTokens
    /\ \E event_id \in DOMAIN remote.events, kwargs \in EventFields,
          env \in LazyEnv(creds), outs \in [1..2 -> CallOutcomes] :
         Conclude("calendar", "update_event", Ensured("calendar", env),
                  <<event_id, kwargs>>,
                  update_event(remote, event_id, kwargs, outs))

NextRemote ==
    \/ TakeResult
    \/ CreateDocument
    \/ MoveFile
    \/ UpdateEvent

SpecRemote == InitRemote /\ [][NextRemote]_vars

----------------------------------------------------------------------------
(* The list and search operations *)

\* a listing is split into at most MaxPages pages
MaxPages == 3

\* The listings a remote list call may answer from: nothing, one page, or
\* several pages of record ids.
Listings ==
    {<<>>} \cup {[p \in 1..n |-> <<10 * p + 1, 10 * p + 2>>] : n \in 1..MaxPages}

\* One token file that loads as valid, or none.
InitList ==
    InitWith({[token |-> 1, refresh_token |-> TRUE, expiry |-> 2, scopes |-> SCOPES]},
             {TRUE}, {StartRemote})

OptionalStrings(v) == {<<>>, <<"">>, <<v>>}

OptionalBools == {<<>>, <<TRUE>>, <<FALSE>>}

ListFiles ==
    /\ last = Idle
    /\ nextToken <= MaxTokens
    /\ \E query \in OptionalStrings("name contains 'r'"), pages \in Listings,
          env \in LazyEnv(creds), outs \in [1..1 -> CallOutcomes] :
         Conclude("drive", "list_files", Ensured("drive", env), <<query, pages>>,
                  list_files(remote, query, pages, outs))

FilesCriteria ==
    [name_contains : OptionalStrings("r"), mime_type : OptionalStrings("text/plain"),
     folder_id : OptionalStrings("F"), trashed : BOOLEAN]

SearchFiles ==
    /\ last = Idle
    /\ nextToken <= MaxTokens
    /\ \E c \in FilesCriteria, pages \in Listings,
          env \in LazyEnv(creds), outs \in [1..1 -> CallOutcomes] :
         Conclude("drive", "search_files", Ensured("drive", env), <<c, pages>>,
                  search_files(remote, c, pages, outs))

ListMessages ==
    /\ last = Idle
    /\ nextToken <= MaxTokens
    /\ \E query \in {"", "from:a@x.com"}, pages \in Listings,
          env \in LazyEnv(creds), outs \in [1..1 -> CallOutcomes] :
         Conclude("gmail", "list_messages", Ensured("gmail", env), <<query, pages>>,
                  list_messages(remote, query, pages, outs))

MessagesCriteria ==
    [from_email : OptionalStrings("a@x.com"), to_email : OptionalStrings("b@y.org"),
     subject : OptionalStrings("hi"), after_date : OptionalStrings("2024/01/01"),
     before_date : OptionalStrings("2024/12/31"),
     has_attachment : OptionalBools, is_unread : OptionalBools]

SearchMessages ==
    /\ last = Idle
    /\ nextToken <= MaxTokens
    /\ \E c \in MessagesCriteria, pages \in Listings,
          env \in LazyEnv(creds), outs \in [1..1 -> CallOutcomes] :
         Conclude("gmail", "search_messages", Ensured("gmail", env), <<c, pages>>,
                  search_messages(remote, c, pages, outs))

ListEvents ==
    /\ last = Idle
    /\ nextToken <= MaxTokens
    /\ \E pages \in Listings, env \in LazyEnv(creds), outs \in [1..1 -> CallOutcomes] :
         Conclude("calendar", "list_events", Ensured("calendar", env), <<<<>>, pages>>,
                  list_events(remote, pages, outs))

ListCalendars ==
    /\ last = Idle
    /\ nextToken <= MaxTokens
    /\ \E pages \in Listings, env \in LazyEnv(creds), outs \in [1..1 -> CallOutcomes] :
         Conclude("calendar", "list_calendars", Ensured("calendar", env),
                  <<<<>>, pages>>, list_calendars(remote, pages, outs))

NextList ==
    \/ TakeResult
    \/ ListFiles
    \/ SearchFiles
    \/ ListMessages
    \/ SearchMessages
    \/ ListEvents
    \/ ListCalendars

SpecList == InitList /\ [][NextList]_vars

----------------------------------------------------------------------------
(* Upload and download *)

\* a content argument has at most MaxLen characters or bytes
MaxLen == 1

SeqsUpTo(S, n) == UNION {[1..k -> S] : k \in 0..n}

\* Byte strings and text strings: a NUL byte, "a", a byte that is not valid
\* UTF-8 on its own; the characters "a" and e-acute.
Contents ==
    {<<"bytes", b>> : b \in SeqsUpTo({0, 97, 233}, MaxLen)}
    \cup {<<"str", s>> : s \in SeqsUpTo({97, 233}, MaxLen)}

\* The cut points of a download in 1..MaxChunks chunks.
Cuts(bytes) ==
    {c \in SeqsUpTo(0..Len(bytes), MaxChunks - 1) :
        \A i \in 1..(Len(c) - 1) : c[i] <= c[i + 1]}

UploadContent ==
    /\ last = Idle
    /\ nextToken <= MaxTokens
    /\ Len(remote.files) < MaxFiles
    /\ \E content \in Contents, folder_id \in {<<>>, <<1>>},
          env \in LazyEnv(creds), outs \in [1..1 -> CallOutcomes] :
         Conclude("drive", "upload_content", Ensured("drive", env),
                  <<content, "n", folder_id>>,
                  upload_content(remote, content, "n", folder_id, outs))

DownloadFile ==
    /\ last = Idle
    /\ nextToken <= MaxTokens
    /\ \E file_id \in DOMAIN remote.files :
       \E cuts \in Cuts(remote.files[file_id].content), env \in LazyEnv(creds) :
       \E outs \in [1..(Len(cuts) + 1) -> CallOutcomes] :
         Conclude("drive", "download_file", Ensured("drive", env),
                  <<file_id, cuts>>, download_file(remote, file_id, cuts, outs))

NextStore ==
    \/ TakeResult
    \/ UploadContent
    \/ DownloadFile

SpecStore == InitList /\ [][NextStore]_vars

----------------------------------------------------------------------------
(* Reading and editing documents, reading messages *)

\* a document body has at most MaxElements structural elements
MaxElements == 2
\* a multipart node has at most MaxParts parts
MaxParts == 1
\* append_text is run while the document text is shorter than MaxText
MaxText == 3

\* The structural elements the document bodies are made of: paragraphs with no
\* run, one run, runs around an image; a table with a paragraph in a cell; a
\* section break.
Elements ==
    {Paragraph(<<>>), Paragraph(<<TextRun("Hello")>>),
     Paragraph(<<TextRun("a"), InlineObject, TextRun("b")>>),
     Table(<<Paragraph(<<TextRun("cell")>>)>>), SectionBreak}

Bodies == SeqsUpTo(Elements, MaxElements)

Leaves == {Leaf("text/plain", "hi"), Leaf("text/plain", ""), Leaf("text/html", "<b>hi</b>")}

\* The message payloads: a single part, or a multipart of leaves and of
\* multiparts of leaves.
Payloads ==
    LET Inner == {Multipart("multipart/alternative", p) :
                    p \in SeqsUpTo(Leaves, MaxParts) \ {<<>>}}
    IN  Leaves \cup {Multipart("multipart/mixed", p) :
                        p \in SeqsUpTo(Leaves \cup Inner, MaxParts) \ {<<>>}}

Document(body) == File("document", "d", <<>>, body, {0})

\* The remote holds one document and one message.
ReadRemotes ==
    {[files |-> <<Document(b)>>, events |-> <<>>,
      messages |-> <<Leaf("text/plain", "hi")>>] : b \in Bodies}
    \cup {[files |-> <<Document(<<>>)>>, events |-> <<>>, messages |-> <<m>>] :
            m \in Payloads}

InitRead ==
    InitWith({[token |-> 1, refresh_token |-> TRUE, expiry |-> 2, scopes |-> SCOPES]},
             {TRUE}, ReadRemotes)

Documents(r) == {i \in DOMAIN r.files : r.files[i].kind = "document"}

ReadDocumentText ==
    /\ last = Idle
    /\ nextToken <= MaxTokens
    /\ \E document_id \in Documents(remote), env \in LazyEnv(creds),
          outs \in [1..1 -> CallOutcomes] :
         Conclude("docs", "read_document_text", Ensured("docs", env), <<document_id>>,
                  read_document_text(remote, document_id, outs))

AppendText ==
    /\ last = Idle
    /\ nextToken <= MaxTokens
    /\ \E document_id \in Documents(remote), text \in {"x", "yz"},
          env \in LazyEnv(creds), outs \in [1..1 -> CallOutcomes] :
         /\ Len(ExtractText(remote.files[document_id].body)) < MaxText
         /\ Conclude("docs", "append_text", Ensured("docs", env),
                     <<document_id, text>>,
                     append_text(remote, document_id, text, outs))

\* The terms searched for: the empty term, single letters, a term that overlaps
\* itself, a term that is the whole text of a paragraph, a term no text holds.
SearchTerms == {"", "l", "x", "xx", "Hello", "q"}

SearchInDocument ==
    /\ last = Idle
    /\ nextToken <= MaxTokens
    /\ \E document_id \in Documents(remote), search_term \in SearchTerms,
          env \in LazyEnv(creds), outs \in [1..1 -> CallOutcomes] :
         Conclude("docs", "search_in_document", Ensured("docs", env),
                  <<document_id, search_term>>,
                  search_in_document(remote, document_id, search_term, outs))

GetMessageBody ==
    /\ last = Idle
    /\ nextToken <= MaxTokens
    /\ \E message_id \in DOMAIN remote.messages, env \in LazyEnv(creds),
          outs \in [1..1 -> CallOutcomes] :
         Conclude("gmail", "get_message_body", Ensured("gmail", env), <<message_id>>,
                  get_message_body(remote, message_id, outs))

NextRead ==
    \/ TakeResult
    \/ ReadDocumentText
    \/ AppendText
    \/ SearchInDocument
    \/ GetMessageBody

SpecRead == InitRead /\ [][NextRead]_vars

----------------------------------------------------------------------------
(* auth_headless.py and complete_auth.py: the authorization scripts *)

\* parse_qs(urlparse(text).query): the parameters with a non-blank value, in order.
parse_qs(t) ==
    LET NonBlank(kv) == kv[2] # ""
    IN  SelectSeq(t.query, NonBlank)

\* `'code' in params`
HasCode(params) == \E i \in DOMAIN params : params[i][1] = "code"

\* params['code'][0], as a text of its own
FirstCode(params) ==
    LET i == CHOOSE j \in DOMAIN params :
                 params[j][1] = "code" /\ \A k \in 1..(j - 1) : params[k][1] # "code"
    IN  Text(FALSE, params[i][2], <<>>)

\* How a run of a script ends: the token file, the next token of the provider,
\* what it did in order.
ScriptEnd(file, tok, outcome, error, ev) ==
    [file |-> file, tok |-> tok, outcome |-> outcome, error |-> error, events |-> ev]

\* auth_headless.py lines 19-69: main()
main(file, tok, pasted, answer) ==
    IF ~credentialsExists THEN ScriptEnd(file, tok, "returned", "", <<"print_error">>)
    ELSE IF file # <<>> THEN ScriptEnd(file, tok, "returned", "", <<"print_exists">>)
    ELSE LET redirect_url == strip(pasted)
             params       == parse_qs(redirect_url)
             ev           == <<"read_secrets", "print_url", "prompt">>
         IN  IF ~HasCode(params)
             THEN ScriptEnd(file, tok, "returned", "", ev \o <<"print_error">>)
             ELSE LET f == fetch_token(FirstCode(params), answer)
                  IN  IF f.error # ""
                      THEN ScriptEnd(file, tok, "raised", f.error, ev \o f.events)
                      ELSE ScriptEnd(<<to_json(Exchanged(SCOPES, tok))>>, tok + 1,
                                     "returned", "",
                                     ev \o f.events \o <<"write", "print_success">>)

\* complete_auth.py lines 14-87: the script body, given the redirect URL as its
\* argument.  The token it writes carries no expiry.
complete_auth(file, tok, redirect_url, answer) ==
    LET params == parse_qs(redirect_url)
    IN  IF ~HasCode(params) THEN ScriptEnd(file, tok, "exit(1)", "", <<"print_error">>)
        ELSE IF ~credentialsExists
        THEN ScriptEnd(file, tok, "raised", "FileNotFoundError", <<"print_code">>)
        ELSE IF answer = "ok" /\ FirstCode(params) = BareCode
        THEN ScriptEnd(<<[token |-> tok, refresh_token |-> TRUE, expiry |-> 0,
                          scopes |-> SCOPES]>>, tok + 1, "returned", "",
                       <<"print_code", "read_secrets", "exchange", "write",
                         "print_success">>)
        ELSE ScriptEnd(file, tok, "exit(1)", "",
                       <<"print_code", "read_secrets", "exchange", "exchange_error",
                         "print_error">>)

\* A script runs in a process of its own: it shares the files with the manager,
\* not the credential the manager holds.
RunScript(op, text, s) ==
    /\ tokenFile' = s.file
    /\ nextToken' = s.tok
    /\ last' = [Idle EXCEPT !.op = op, !.outcome = s.outcome, !.error = s.error,
                            !.events = s.events, !.preFile = tokenFile,
                            !.preCreds = creds, !.input = <<text>>]
    /\ UNCHANGED <<procs, authRan, creds, credentialsExists, now, autoExpire, service,
                   everAsked, remote>>

AuthHeadlessMain ==
    /\ nextToken <= MaxTokens
    /\ \E pasted \in Pasted, answer \in {"ok", "exchange_error"} :
         RunScript("auth_headless.main", pasted,
                   main(tokenFile, nextToken, pasted, answer))

CompleteAuth ==
    /\ nextToken <= MaxTokens
    /\ \E redirect_url \in {t \in Pasted : ~t.pad}, answer \in {"ok", "exchange_error"} :
         RunScript("complete_auth", redirect_url,
                   complete_auth(tokenFile, nextToken, redirect_url, answer))

\* The three ways to authorize interactively, on one token file.
NextInteractive ==
    \/ Tick
    \/ Authenticate
    \/ RevokeCredentials
    \/ AuthHeadlessMain
    \/ CompleteAuth

SpecInteractive == InitClients /\ [][NextInteractive]_vars

----------------------------------------------------------------------------
(* Several processes on one token file *)

\* Each process runs its own GoogleAuthManager on the same token_path.  Nothing
\* in auth.py locks the file, so the file accesses of one call (the existence
\* tests, the read, the write, the removal) interleave with those of the
\* other process; what lies between two file accesses is local to the process.

\* line 120: os.remove(path) raises when there is no file at the path.
os_remove(file) ==
    IF file = <<>> THEN [file |-> file, error |-> "FileNotFoundError"]
    ELSE [file |-> <<>>, error |-> ""]

\* lines 93-94 keeping a file that holds a later token than the one to write.
WriteToken_keeping_newer(file, c) ==
    IF file # <<>> /\ file[1].token > c.token THEN file ELSE <<to_json(c)>>

\* lines 93-94: open(token_path, 'w') replaces whatever the file holds.
WriteToken(file, c) == <<to_json(c)>>

At(p, pc) == procs[p].pc = pc

\* A process entering a call: it keeps the credential it holds.
Entering(p, op) == [IdleProc EXCEPT !.creds = procs[p].creds, !.op = op]

\* How a call ends.
Ended(pr, c, outcome, error) ==
    [pr EXCEPT !.pc = "idle", !.creds = c, !.outcome = outcome, !.error = error]

\* Lines 56-67 for a process that holds c at line 56: return c, go on to the
\* refresh or to the flow, or raise for the missing client-secret file.
Decide(pr, c) ==
    IF ~NeedsAuth(c) THEN Ended([pr EXCEPT !.path = "stored"], c, "returned", "")
    ELSE IF CanRefresh(c) THEN [pr EXCEPT !.pc = "line60", !.creds = c, !.path = "refresh"]
    ELSE IF ~credentialsExists
         THEN Ended([pr EXCEPT !.path = "flow"], c, "raised", "FileNotFoundError")
    ELSE [pr EXCEPT !.pc = "line70", !.creds = c, !.path = "flow"]

\* line 52: os.path.exists(self.token_path)
AuthExists(p) ==
    /\ At(p, "idle")
    /\ nextToken <= MaxTokens
    /\ procs' = [procs EXCEPT ![p] =
                    IF tokenFile # <<>>
                    THEN [Entering(p, "authenticate") EXCEPT !.pc = "line53"]
                    ELSE Decide(Entering(p, "authenticate"), procs[p].creds)]
    /\ UNCHANGED <<authRan, creds, tokenFile, credentialsExists, now, nextToken, autoExpire,
                   service, everAsked, remote, last>>

\* line 53: the file is opened and read; it raises when the file has gone since
\* line 52.
AuthLoad(p) ==
    /\ At(p, "line53")
    /\ procs' = [procs EXCEPT ![p] =
                    IF tokenFile = <<>>
                    THEN Ended(procs[p], procs[p].creds, "raised", "FileNotFoundError")
                    ELSE Decide([procs[p] EXCEPT !.read = tokenFile],
                                LoadStored(Manager(procs[p].creds, tokenFile,
                                                   nextToken)).creds)]
    /\ UNCHANGED <<authRan, creds, tokenFile, credentialsExists, now, nextToken, autoExpire,
                   service, everAsked, remote, last>>

\* What lines 58-90 leave the process with, before the write of lines 93-94.
Obtained(p, r) ==
    /\ procs' = [procs EXCEPT ![p] =
                    IF r.outcome = "raised"
                    THEN Ended(procs[p], r.m.creds, "raised", r.error)
                    ELSE [procs[p] EXCEPT !.pc = "line93", !.creds = r.m.creds]]
    /\ nextToken' = r.m.tok

\* lines 58-60: the refresh call
AuthRefresh(p) ==
    /\ At(p, "line60")
    /\ \E env \in AuthEnv :
         Obtained(p, RefreshPath(Manager(procs[p].creds, tokenFile, nextToken),
                                 env, <<>>, <<>>))
    /\ UNCHANGED <<authRan, creds, tokenFile, credentialsExists, now, autoExpire,
                   service, everAsked, remote, last>>

\* lines 69-90: the interactive flow
AuthFlow(p) ==
    /\ At(p, "line70")
    /\ \E env \in AuthEnv :
         Obtained(p, InteractiveFlow(Manager(procs[p].creds, tokenFile, nextToken),
                                     env, <<>>, <<>>))
    /\ UNCHANGED <<authRan, creds, tokenFile, credentialsExists, now, autoExpire,
                   service, everAsked, remote, last>>

\* lines 93-97: the credential is written and returned
AuthWrite(p) ==
    /\ At(p, "line93")
    /\ tokenFile' = WriteToken(tokenFile, procs[p].creds[1])
    /\ procs' = [procs EXCEPT ![p] =
                    Ended([procs[p] EXCEPT !.wrote = TRUE], procs[p].creds,
                          "returned", "")]
    /\ UNCHANGED <<authRan, creds, credentialsExists, now, nextToken, autoExpire,
                   service, everAsked, remote, last>>

\* line 119 of revoke_credentials(): os.path.exists(self.token_path)
RevokeExists(p) ==
    /\ At(p, "idle")
    /\ procs' = [procs EXCEPT ![p] =
                    [Entering(p, "revoke_credentials") EXCEPT
                        !.pc = IF tokenFile # <<>> THEN "line120" ELSE "line122"]]
    /\ UNCHANGED <<authRan, creds, tokenFile, credentialsExists, now, nextToken, autoExpire,
                   service, everAsked, remote, last>>

\* line 120: os.remove(self.token_path); its error leaves the call before
\* line 122
RevokeRemove(p) ==
    /\ At(p, "line120")
    /\ LET r == os_remove(tokenFile)
       IN  /\ tokenFile' = r.file
           /\ procs' = [procs EXCEPT ![p] =
                           IF r.error # ""
                           THEN Ended(procs[p], procs[p].creds, "raised", r.error)
                           ELSE [procs[p] EXCEPT !.pc = "line122"]]
    /\ UNCHANGED <<authRan, creds, credentialsExists, now, nextToken, autoExpire,
                   service, everAsked, remote, last>>

\* line 122: self.creds = None
RevokeClear(p) ==
    /\ At(p, "line122")
    /\ procs' = [procs EXCEPT ![p] = Ended(procs[p], NoCredentials, "returned", "")]
    /\ UNCHANGED <<authRan, creds, tokenFile, credentialsExists, now, nextToken, autoExpire,
                   service, everAsked, remote, last>>

ProcAuthenticate ==
    \E p \in Procs :
        AuthExists(p) \/ AuthLoad(p) \/ AuthRefresh(p) \/ AuthFlow(p) \/ AuthWrite(p)

ProcRevoke ==
    \E p \in Procs : RevokeExists(p) \/ RevokeRemove(p) \/ RevokeClear(p)

NextProcs ==
    \/ Tick
    \/ ProcAuthenticate
    \/ ProcRevoke

SpecProcs == InitClients /\ [][NextProcs]_vars

----------------------------------------------------------------------------
(* Properties of processes sharing the token file, checked under SpecProcs *)

\* Process p authenticated on the refresh or the interactive path and wrote
\* the token file.
WroteOwnToken(p) ==
    /\ procs[p].pc = "idle" /\ procs[p].op = "authenticate"
    /\ procs[p].outcome = "returned" /\ procs[p].wrote
    /\ procs[p].path \in {"refresh", "flow"}

\* C22: nothing orders the writes of two processes: the write of lines 93-94
\* puts the writer's credential in the token file whatever another process has
\* written there since the writer read it, and changes the credential no
\* process holds in memory.  So two processes that both found the same stored
\* token end with the file holding the last writer's token alone, while the
\* first writer goes on holding its own (C22_Witness).
C22_WriteReplacesTheFile ==
    [][\A p \in Procs :
          (procs[p].pc = "line93" /\ procs'[p].pc = "idle") =>
              /\ tokenFile' = <<to_json(procs[p].creds[1])>>
              /\ \A q \in Procs : procs'[q].creds = procs[q].creds]_vars

\* Both processes read the same stored token, both refreshed it and wrote; the
\* file holds the token of one, the other holds a token the file has lost.
C22_Witness ==
    \E p, q \in Procs :
        /\ p # q /\ WroteOwnToken(p) /\ WroteOwnToken(q)
        /\ procs[p].read # <<>> /\ procs[p].read = procs[q].read
        /\ tokenFile = <<to_json(procs[q].creds[1])>>
        /\ procs[p].creds # NoCredentials
        /\ procs[p].creds[1].token # tokenFile[1].token
        /\ Valid(procs[p].creds[1])

\* The same through the interactive path: both processes found no token file.
BothFlowsOverwriteReached ==
    \E p, q \in Procs :
        /\ p # q /\ WroteOwnToken(p) /\ WroteOwnToken(q)
        /\ procs[p].path = "flow" /\ procs[q].path = "flow"
        /\ now = 1
        /\ tokenFile = <<to_json(procs[q].creds[1])>>
        /\ procs[p].creds[1].token # tokenFile[1].token

RevokeCompleted(p) == procs[p].op = "revoke_credentials" /\ procs[p].pc = "idle"

\* C29: revoke_credentials() raises nothing when the token file is used by
\* another process at the same time: every call completes without an error and
\* with the caller's credential cleared, and when both processes have completed
\* a revoke the file is absent.
C29_ConcurrentRevokeNeverRaises ==
    /\ \A p \in Procs :
          RevokeCompleted(p) =>
              /\ procs[p].outcome = "returned" /\ procs[p].error = ""
              /\ procs[p].creds = NoCredentials
    /\ (\A p \in Procs : RevokeCompleted(p)) => tokenFile = <<>>

\* Two processes revoked at the same time: both saw the file, one removed it,
\* the removal of the other raised, and that process still holds its credential.
RevokeRaisedReached ==
    \E p, q \in Procs :
        /\ p # q /\ RevokeCompleted(p) /\ RevokeCompleted(q)
        /\ procs[q].outcome = "returned"
        /\ procs[p].outcome = "raised" /\ procs[p].error = "FileNotFoundError"
        /\ procs[p].creds # NoCredentials
        /\ tokenFile = <<>>

----------------------------------------------------------------------------
(* Properties of the manager, checked under Spec *)

\* The last call ran authenticate(): directly, or through a session accessor that
\* found no credential held.
RanAuthenticate ==
    \/ last.op = "authenticate"
    \/ last.op = "get_service" /\ last.preCreds = NoCredentials

InteractiveEvents ==
    {"read_secrets", "local_server", "server_error", "print_url", "prompt",
     "exchange", "exchange_error"}

NoInteractiveFlow == \A i \in DOMAIN last.events : last.events[i] \notin InteractiveEvents

StoredLoadsValid ==
    RanAuthenticate /\ last.preFile # <<>> /\ Valid(last.loaded[1])

StoredLoadsRefreshable ==
    /\ RanAuthenticate /\ last.preFile # <<>>
    /\ Expired(last.loaded[1]) /\ last.loaded[1].refresh_token

\* C1: a stored credential that loads as valid is returned as loaded: no refresh
\* call, no interactive flow (no listener, no prompt), the client-secret file is
\* not read, and the token file is left alone.
C1_ValidStoredIsReturned ==
    StoredLoadsValid =>
        /\ last.outcome = "returned"
        /\ last.events = <<"load">>
        /\ creds = last.loaded
        /\ tokenFile = last.preFile

C1_Witness ==
    /\ last.op = "authenticate" /\ StoredLoadsValid
    /\ last.outcome = "returned" /\ creds # NoCredentials /\ credentialsExists

\* C2: a stored credential that is expired and has a refresh token is refreshed
\* with exactly one refresh call and no interactive flow; when authenticate()
\* returns, the refreshed credential has been written to the token file (the
\* write is the last effect and follows the refresh).
C2_ExpiredStoredIsRefreshedOnce ==
    StoredLoadsRefreshable =>
        /\ Count(last.events, "refresh") = 1
        /\ NoInteractiveFlow
        /\ last.outcome = "returned" =>
              /\ last.events = <<"load", "refresh", "write">>
              /\ creds # NoCredentials
              /\ creds[1].token # last.loaded[1].token
              /\ Valid(creds[1])
              /\ tokenFile = <<to_json(creds[1])>>

C2_Witness ==
    /\ last.op = "authenticate" /\ StoredLoadsRefreshable
    /\ last.outcome = "returned" /\ Has(last.events, "write")

\* C3: revoke_credentials() never raises, and after it the token file is absent
\* and no credential is held, from every state, in particular from the state a
\* revoke_credentials() just before it left.
C3_RevokeIdempotent ==
    last.op = "revoke_credentials" =>
        /\ last.outcome = "returned"
        /\ last.error = ""
        /\ tokenFile = <<>>
        /\ creds = NoCredentials
        /\ last.again => last.preFile = <<>> /\ last.preCreds = NoCredentials
                         /\ last.events = <<>>

C3_Witness ==
    /\ last.op = "revoke_credentials" /\ last.again
    /\ last.outcome = "returned" /\ tokenFile = <<>>

\* The call had to obtain a new credential: line 56 found none, or one that is
\* not valid and cannot be refreshed.
NeedsNewCredential ==
    /\ RanAuthenticate
    /\ \/ last.loaded = NoCredentials
       \/ /\ ~Valid(last.loaded[1])
          /\ ~(Expired(last.loaded[1]) /\ last.loaded[1].refresh_token)

\* C4: when a new credential is needed and the client-secret file is missing,
\* authenticate() raises the configuration error at once: nothing but the load of
\* the token file has happened (no prompt, no listener, no network call, no second
\* attempt) and the token file is as it was.
C4_MissingSecretsFailFast ==
    (NeedsNewCredential /\ ~credentialsExists) =>
        /\ last.outcome = "raised"
        /\ last.error = "FileNotFoundError"
        /\ last.events = (IF last.preFile # <<>> THEN <<"load">> ELSE <<>>)
        /\ tokenFile = last.preFile

C4_Witness ==
    /\ last.op = "authenticate" /\ NeedsNewCredential /\ ~credentialsExists
    /\ last.preFile # <<>> /\ last.error = "FileNotFoundError"

\* C5: when the refresh call or an authorization-code exchange fails,
\* authenticate() raises an authentication error to the caller, makes no second
\* attempt, and leaves the token file as it was.
C5_AuthErrorReachesCaller ==
    (RanAuthenticate
        /\ (Has(last.events, "refresh_error") \/ Has(last.events, "exchange_error"))) =>
        /\ last.outcome = "raised"
        /\ last.error \in {"RefreshError", "ExchangeError"}
        /\ Count(last.events, "refresh") + Count(last.events, "exchange") = 1
        /\ tokenFile = last.preFile

\* C7: every scope list authenticate() passes to the library, when it loads the
\* stored credential and when it builds the interactive flow, is the required
\* set, calendar included.
RequiredScopes ==
    {"drive", "documents", "gmail.readonly", "gmail.send", "gmail.modify", "calendar"}

C7_RequestedScopesAreRequired ==
    RanAuthenticate =>
        \A i \in DOMAIN last.requested : last.requested[i] = RequiredScopes

\* The token file held a credential that lists other scopes than the program requests.
StoredScopesDiffer ==
    RanAuthenticate /\ last.preFile # <<>> /\ last.preFile[1].scopes # SCOPES

\* C8 as claimed: a stored credential whose scopes differ from the requested ones
\* is not accepted: it is neither returned nor refreshed, the interactive flow runs.
C8_DifferingScopesRejected ==
    StoredScopesDiffer =>
        /\ ~Has(last.events, "refresh")
        /\ last.outcome = "returned" => Has(last.events, "local_server")

\* C8 as amended: the scopes the token file lists play no part.  A stored
\* credential that loads as valid is returned as it is (reporting the requested
\* scopes), one that is expired with a refresh token is refreshed, and the
\* interactive flow runs only for one that is neither.
C8_StoredScopesAreNotCompared ==
    StoredScopesDiffer =>
        /\ last.loaded = <<from_authorized_user_file(last.preFile[1], SCOPES)>>
        /\ Valid(last.loaded[1]) =>
              /\ last.outcome = "returned" /\ last.events = <<"load">>
              /\ creds = last.loaded /\ tokenFile = last.preFile
        /\ (Expired(last.loaded[1]) /\ last.loaded[1].refresh_token) =>
              /\ Has(last.events, "refresh") /\ NoInteractiveFlow
        /\ Has(last.events, "local_server") => NeedsNewCredential

C8_Witness ==
    /\ last.op = "authenticate" /\ StoredScopesDiffer
    /\ Valid(last.loaded[1]) /\ last.outcome = "returned"
    /\ creds[1].scopes # last.preFile[1].scopes

\* C9 as claimed: after authenticate() returns, the token file holds the
\* serialization of the credential returned and held; after revoke it is absent.
C9_FileIsSerializationOfHeld ==
    /\ (RanAuthenticate /\ last.outcome = "returned") =>
            /\ creds # NoCredentials
            /\ tokenFile = <<to_json(creds[1])>>
    /\ last.op = "revoke_credentials" => tokenFile = <<>>

\* C9 as amended: after authenticate() returns, the token file exists and holds
\* the token and refresh token of the credential returned and held.  It is the
\* serialization of that credential on the paths that write it (refresh,
\* interactive); on the stored-valid path the file is not rewritten and is the
\* record the credential was loaded from, so the scopes it lists may differ from
\* the ones the credential reports.  After revoke the file is absent.
C9_FileMatchesHeld ==
    /\ (RanAuthenticate /\ last.outcome = "returned") =>
            /\ creds # NoCredentials /\ tokenFile # <<>>
            /\ tokenFile[1].token = creds[1].token
            /\ tokenFile[1].refresh_token = creds[1].refresh_token
            /\ Has(last.events, "write") => tokenFile = <<to_json(creds[1])>>
            /\ ~Has(last.events, "write") =>
                  /\ tokenFile = last.preFile
                  /\ creds = <<from_authorized_user_file(tokenFile[1], SCOPES)>>
    /\ last.op = "revoke_credentials" => tokenFile = <<>>

C9_Witness ==
    /\ last.op = "authenticate" /\ last.outcome = "returned"
    /\ Has(last.events, "prompt") /\ Has(last.events, "write")
    /\ tokenFile = <<to_json(creds[1])>>

\* The position of the first e in s; 0 when s has none.
FirstOf(s, e) ==
    IF Has(s, e)
    THEN CHOOSE i \in DOMAIN s : s[i] = e /\ \A j \in 1..(i - 1) : s[j] # e
    ELSE 0

\* The listener attempt that started at position ls had failed before position k.
ListenerFailedBefore(ev, ls, k) ==
    \E i \in (ls + 1)..(k - 1) : ev[i] \in {"server_error", "exchange_error"}

\* The exchange of the pasted code failed: after the prompt, the provider turned
\* the code down or the library refused it.
ManualExchangeFailed(ev) ==
    /\ Has(ev, "prompt")
    /\ \E i \in (FirstOf(ev, "prompt") + 1)..Len(ev) :
           ev[i] \in {"exchange_error", "fetch_token_error"}

\* C21: in the interactive flow the local callback listener is tried first, and
\* once; the manual path (print the URL, prompt, exchange) is entered only after
\* the listener attempt has failed; the token file is written only as the last
\* effect, directly after an exchange that produced a credential; and a failed
\* manual exchange ends the call: nothing is tried or written after it.
C21_ListenerFirstThenManualOnce ==
    LET ev == last.events
        rs == FirstOf(ev, "read_secrets")
        ls == FirstOf(ev, "local_server")
        pu == FirstOf(ev, "print_url")
        pr == FirstOf(ev, "prompt")
        wr == FirstOf(ev, "write")
    IN  last.op \in {"authenticate", "get_service"} =>
        /\ rs # 0 => ls = rs + 1
        /\ Count(ev, "local_server") <= 1
        /\ Count(ev, "print_url") <= 1 /\ Count(ev, "prompt") <= 1
        /\ (pu # 0 \/ pr # 0) =>
              /\ ls # 0 /\ ls < pu /\ pr = pu + 1
              /\ ListenerFailedBefore(ev, ls, pu)
        /\ (rs # 0 /\ wr # 0) =>
              /\ wr = Len(ev) /\ ev[wr - 1] = "exchange"
              /\ last.outcome = "returned"
              /\ tokenFile = <<to_json(creds[1])>>
        /\ ManualExchangeFailed(ev) =>
              /\ last.outcome = "raised"
              /\ ev[Len(ev)] \in {"exchange_error", "fetch_token_error"}
              /\ Count(ev, "fetch_token_error")
                   + Count(SubSeq(ev, pr, Len(ev)), "exchange") = 1
              /\ wr = 0
              /\ tokenFile = last.preFile

\* The listener could not start, the code was pasted and exchanged, the token
\* file was written.
C21_Witness ==
    /\ last.op = "authenticate" /\ last.outcome = "returned"
    /\ last.events = <<"read_secrets", "local_server", "server_error",
                       "print_url", "prompt", "exchange", "write">>
    /\ tokenFile # <<>>

\* The listener could not start and the exchange of the pasted code failed.
ManualExchangeFailureReached ==
    /\ last.op = "authenticate" /\ ManualExchangeFailed(last.events)
    /\ last.outcome = "raised"

\* What line 57 tests, on the credential line 56 found.
ExpiredWithRefreshToken(c) ==
    c # NoCredentials /\ Expired(c[1]) /\ c[1].refresh_token

\* The call found no credential, or one that is not valid, and it cannot be
\* refreshed.
AbsentOrInvalidOtherwise ==
    /\ RanAuthenticate
    /\ last.loaded = NoCredentials \/ ~Valid(last.loaded[1])
    /\ ~ExpiredWithRefreshToken(last.loaded)

\* The stored record of the claim's example: a refresh token, no access token,
\* no expiry.
StoredWithoutTokenAndExpiry ==
    /\ RanAuthenticate /\ last.preFile # <<>>
    /\ last.preFile[1].token = 0 /\ last.preFile[1].expiry = 0
    /\ last.preFile[1].refresh_token

FlowRan == Has(last.events, "local_server")

RefreshCalled == Has(last.events, "refresh")

\* C24 as stated: the refresh call is made exactly when a stored credential was
\* loaded that is expired and has a refresh token; in every other case where the
\* credential is absent or not valid the interactive flow runs and no refresh
\* call is made, a stored record with a refresh token but no access token and no
\* expiry among them.
C24_RefreshExactlyWhenExpired ==
    RanAuthenticate =>
        /\ RefreshCalled <=> (last.preFile # <<>> /\ ExpiredWithRefreshToken(last.loaded))
        /\ AbsentOrInvalidOtherwise => FlowRan /\ ~RefreshCalled
        /\ StoredWithoutTokenAndExpiry => FlowRan /\ ~RefreshCalled

\* C24 amended: the refresh call is made exactly when the credential loaded from
\* the token file is expired and has a refresh token.  In every other case where
\* the credential is absent or not valid no refresh call is made and the
\* interactive branch is taken: the flow starts when the client-secret file
\* exists, and the call raises FileNotFoundError when it does not.  A stored
\* record with a refresh token but no access token and no expiry goes the way
\* its loaded form decides: the flow where the library loads it without an
\* expiry, the refresh where the library loads a missing expiry as already past.
C24_RefreshExactlyWhenLoadedExpired ==
    RanAuthenticate =>
        /\ RefreshCalled <=> ExpiredWithRefreshToken(last.loaded)
        /\ RefreshCalled => last.preFile # <<>> /\ ~FlowRan
        /\ AbsentOrInvalidOtherwise =>
              /\ ~RefreshCalled
              /\ IF credentialsExists THEN FlowRan
                 ELSE ~FlowRan /\ last.error = "FileNotFoundError"
        /\ StoredWithoutTokenAndExpiry =>
              IF autoExpire THEN RefreshCalled /\ ~FlowRan
              ELSE ~RefreshCalled /\ (credentialsExists => FlowRan)

\* A stored credential with a refresh token, no access token and an expiry still
\* ahead: not valid, not expired; the flow ran and nothing was refreshed.
C24_Witness ==
    /\ last.op = "authenticate" /\ last.preFile # <<>>
    /\ last.loaded[1].refresh_token /\ last.loaded[1].token = 0
    /\ ~Expired(last.loaded[1])
    /\ FlowRan /\ ~RefreshCalled /\ last.outcome = "returned"

\* The example record under a library that leaves a missing expiry unset.
ExampleRunsFlowReached ==
    /\ last.op = "authenticate" /\ StoredWithoutTokenAndExpiry /\ ~autoExpire
    /\ FlowRan /\ ~RefreshCalled

\* The example record under a library that loads a missing expiry as past.
ExampleIsRefreshedReached ==
    /\ last.op = "authenticate" /\ StoredWithoutTokenAndExpiry /\ autoExpire
    /\ RefreshCalled /\ ~FlowRan

\* C26: the manager holds a credential only if the last authenticate() returned:
\* after an authenticate() that raised, no credential is held, and a session
\* accessor that returns a session has either run authenticate() itself or
\* holds a credential that is valid.
C26_FailedAuthenticateHoldsNothing ==
    /\ (RanAuthenticate /\ last.outcome = "raised") => creds = NoCredentials
    /\ (last.op = "get_service" /\ last.outcome = "returned" /\ now = 1) =>
          \/ last.preCreds = NoCredentials
          \/ Valid(last.preCreds[1])

\* authenticate() raised and the credential it had loaded is still held.
LoadedCredentialKeptAfterFailure ==
    /\ last.op = "authenticate" /\ last.outcome = "raised"
    /\ last.preCreds = NoCredentials
    /\ creds # NoCredentials /\ creds = last.loaded /\ ~Valid(creds[1])

\* A session accessor found that credential, ran no authenticate() and built a
\* session from it, before any time had passed.
SessionBuiltFromUnreturnedCredential ==
    /\ last.op = "get_service" /\ last.outcome = "returned" /\ now = 1
    /\ last.preCreds # NoCredentials /\ ~Valid(last.preCreds[1])
    /\ last.events = <<>> /\ last.session # <<>>

----------------------------------------------------------------------------
(* Properties of the clients, checked under SpecClients *)

ClientOps ==
    [drive |-> DriveOps, docs |-> DocsOps, gmail |-> GmailOps, calendar |-> CalendarOps]

\* The last call was a domain operation of a client.
DomainOperation == last.api \in Clients /\ last.op \in ClientOps[last.api]

\* The version each surface is to be built with.
RequiredVersion == [drive |-> "v3", docs |-> "v1", gmail |-> "v1", calendar |-> "v3"]

AuthErrors == {"FileNotFoundError", "RefreshError", "ExchangeError", "ValueError"}

\* C6: unless authenticate() itself failed, an operation of any of the four
\* clients leaves the client with a session for each surface it uses, built for
\* that surface and its version.
C6_EverySurfaceHasAnAccessor ==
    (DomainOperation /\ last.error \notin AuthErrors) =>
        \A i \in DOMAIN ClientSlots[last.api] :
            LET s == ClientSlots[last.api][i]
            IN  /\ service[s.slot] # <<>>
                /\ service[s.slot][1].api = s.api
                /\ service[s.slot][1].version = RequiredVersion[s.api]

\* Some remote call of the last operation failed.
RemoteCallFailed ==
    DomainOperation /\ \E i \in DOMAIN last.calls : last.calls[i].out # "ok"

\* The failed call is the last one made, the operation raised its error, and the
\* calls made are the operation's calls up to the failed one, each made once.
RaisedAtFirstFailure ==
    /\ last.outcome = "raised"
    /\ last.error = last.calls[Len(last.calls)].out
    /\ \A i \in 1..(Len(last.calls) - 1) : last.calls[i].out = "ok"
    /\ \A i \in DOMAIN last.calls :
          last.calls[i] = [name |-> last.callsOf[i], out |-> last.outs[i]]

\* C10 as claimed: a remote call that fails, with an HTTP or a transport error,
\* is logged and re-raised, and no call follows it.
C10_FailureLoggedAndRaised ==
    RemoteCallFailed => (last.logged /\ RaisedAtFirstFailure)

\* C10 as amended: a remote call that fails ends the operation with that error
\* and no call follows it; the error is logged exactly when it is an HttpError (a
\* non-2xx answer).  An error of the transport is raised without being logged.
C10_FailureRaisedHttpErrorLogged ==
    /\ RemoteCallFailed =>
          /\ RaisedAtFirstFailure
          /\ last.logged <=> last.error = "HttpError"
    /\ (DomainOperation /\ ~RemoteCallFailed) => ~last.logged

C10_Witness ==
    /\ DomainOperation /\ RemoteCallFailed
    /\ last.op = "move_file" /\ Len(last.calls) = 2
    /\ last.error = "HttpError" /\ last.logged /\ last.outcome = "raised"

\* C18 as stated: over any sequence of domain operations a client calls the
\* session accessor of a surface at most once, and a handle it holds is never
\* replaced.
C18_AccessorCalledAtMostOnce ==
    [][/\ ~last'.reasked
       /\ \A s \in Slots : service[s] # <<>> => service'[s] = service[s]]_vars

\* C18 amended: a client holds at most one handle per surface; an operation
\* calls the accessor of a surface only while the client holds no handle for
\* it, a handle once held is never replaced, and an accessor is called again
\* only after its earlier call raised.
C18_HeldHandleIsKept ==
    [][/\ \A s \in Slots :
            /\ Len(service'[s]) <= 1
            /\ service[s] # <<>> =>
                  /\ service'[s] = service[s]
                  /\ last'.api \in Clients => s \notin Called(last'.api, last'.asked)
       /\ last'.reasked =>
            \E s \in Called(last'.api, last'.asked) :
                s \in everAsked /\ service[s] = <<>>]_vars

\* A client that holds a handle ran an operation without calling the accessor.
C18_Witness ==
    /\ last.api = "drive" /\ last.op \in DriveOps /\ last.outcome = "returned"
    /\ last.asked = <<>>
    /\ "drive.service" \in everAsked
    /\ service["drive.service"] # <<>>

\* The last domain operation issued a remote call and had started while the
\* manager held no credential: before any authenticate(), or after a revoke.
CalledWithManagerEmpty ==
    DomainOperation /\ last.preCreds = NoCredentials /\ last.calls # <<>>

\* C27: an operation that starts while the manager holds no credential, as
\* after revoke_credentials(), issues its remote calls only after it has
\* authenticated again and acquired its sessions from the new credential, also
\* when the client held a session before.
C27_RevokedSessionIsNotUsed ==
    CalledWithManagerEmpty =>
        /\ last.asked # <<>>
        /\ creds # NoCredentials
        /\ \A i \in DOMAIN ClientSlots[last.api] :
              LET s == ClientSlots[last.api][i].slot
              IN  service[s] # <<>> /\ service[s][1].token = creds[1].token

\* A Drive client that held a session ran an operation after the revoke: the
\* remote call went out on the session it held, no accessor was called, and the
\* manager still holds no credential and has no token file.
CallOnRevokedSessionReached ==
    /\ CalledWithManagerEmpty /\ last.api = "drive" /\ last.outcome = "returned"
    /\ last.asked = <<>> /\ last.events = <<>>
    /\ service["drive.service"] # <<>>
    /\ creds = NoCredentials /\ tokenFile = <<>>

\* A client that held no session when the manager was revoked authenticates
\* again on its first operation.
FreshClientReauthenticates ==
    (CalledWithManagerEmpty /\ last.asked # <<>>) =>
        /\ creds # NoCredentials
        /\ \A i \in DOMAIN ClientSlots[last.api] :
              LET s == ClientSlots[last.api][i].slot
              IN  service[s] # <<>>

----------------------------------------------------------------------------
(* Properties of clients sharing a manager, checked under SpecShared *)

\* The step is a domain operation of a client built on the shared manager.
SharedClientStep == last'.api \in Clients

\* The step is an operation of a client that created a manager of its own.
OwnManagerStep == last'.api = "own_manager"

\* authenticate() as a manager that holds nothing runs it: it reads the token
\* file when there is one, and it fails for the missing client-secret file or
\* starts the flow when there is none.
AuthenticatedFromNothing ==
    IF tokenFile # <<>> THEN Head(last'.events) = "load"
    ELSE last'.error = "FileNotFoundError" \/ Has(last'.events, "local_server")

\* C28 as stated: over the domain operations of the clients of one shared
\* manager, authenticate() runs at most once between construction, or a revoke,
\* and the next revoke.
C28_AuthenticateRunsAtMostOnce ==
    [][(SharedClientStep /\ AuthenticateRan(creds, last'.asked)) => ~authRan]_vars

\* C28 amended: once the shared manager holds a credential (an explicit or a
\* lazy authenticate() has returned and there was no revoke since), no session
\* acquisition of any client runs authenticate(): no load, refresh, flow or
\* token-file write, and the credential held stays as it is; authenticate() is
\* run again by an acquisition only while the manager holds no credential, every
\* earlier run having raised.  A client constructed without a manager runs
\* authenticate() on a manager of its own, whatever the shared manager holds,
\* and leaves the shared manager and its clients' sessions alone.
C28_HeldCredentialIsNotRenewed ==
    [][/\ (SharedClientStep /\ creds # NoCredentials) =>
             /\ last'.events = <<>>
             /\ creds' = creds /\ tokenFile' = tokenFile /\ nextToken' = nextToken
       /\ (SharedClientStep /\ AuthenticateRan(creds, last'.asked) /\ authRan) =>
             creds = NoCredentials
       /\ (OwnManagerStep /\ last'.input[1] \in DOMAIN Accessors) =>
             /\ AuthenticatedFromNothing
             /\ creds' = creds /\ service' = service /\ authRan' = authRan]_vars

\* The Drive client holds its session; the Gmail client has just acquired its
\* own from the credential the manager held, and nothing was loaded, refreshed
\* or written.
C28_Witness ==
    /\ last.api = "gmail" /\ last.asked = <<"gmail">> /\ last.outcome = "returned"
    /\ last.preCreds # NoCredentials /\ creds = last.preCreds
    /\ last.events = <<>> /\ tokenFile = last.preFile
    /\ service["drive.service"] # <<>> /\ service["gmail.service"] # <<>>
    /\ authRan

\* A client with a manager of its own authenticated while the shared manager
\* held a credential.
OwnManagerAuthenticatedReached ==
    /\ last.api = "own_manager" /\ last.input = <<"drive">>
    /\ last.outcome = "returned" /\ last.events # <<>>
    /\ creds # NoCredentials /\ last.preCreds = creds

----------------------------------------------------------------------------
(* Properties of the clients against the remote services, checked under SpecRemote *)

\* C11: every domain operation is atomic with respect to the remote service: a
\* step in which an operation raises an error leaves the remote state exactly
\* as it was before the operation started (create_document with a folder id,
\* move_file and update_event included).
C11_RaisedLeavesRemoteUnchanged ==
    [][(last' # Idle /\ last'.api \in Clients /\ last'.outcome = "raised")
         => remote' = remote]_vars

\* C13: update_event, given a session and remote calls that answer, fetches the
\* current event, overwrites exactly the supplied fields (a datetime given for
\* start or end stored as a {dateTime, timeZone: UTC} record), leaves every
\* other field at its fetched value, writes the merged record back with one
\* update call after the get, and returns the record the update call returned.
C13_UpdateEventMerges ==
    [][(last'.op = "update_event" /\ last'.error \notin AuthErrors \cup CallOutcomes)
         => /\ last'.outcome = "returned"
            /\ last'.calls = <<Made("events.get", "ok"), Made("events.update", "ok")>>
            /\ LET event_id == last'.input[1]
                   kwargs   == last'.input[2]
                   fetched  == remote.events[event_id]
                   written  == remote'.events[event_id]
               IN  /\ last'.result = <<written>>
                   /\ DOMAIN written = DOMAIN fetched \cup DOMAIN kwargs
                   /\ \A key \in DOMAIN kwargs :
                        written[key] =
                          IF key \in {"start", "end"} /\ DOMAIN kwargs[key] = {"datetime"}
                          THEN [dateTime |-> <<"iso", kwargs[key].datetime>>,
                                timeZone |-> "UTC"]
                          ELSE kwargs[key]
                   /\ \A key \in DOMAIN fetched \ DOMAIN kwargs :
                        written[key] = fetched[key]]_vars

----------------------------------------------------------------------------
(* Properties of the list and search operations, checked under SpecList *)

ListOps == {"list_files", "search_files", "list_messages", "search_messages",
            "list_events", "list_calendars"}

\* The listing the remote answered the last list operation from.
Listed == last.input[2]

Records(page) == {page[i] : i \in DOMAIN page}

\* C12: each list operation that was given a session and whose remote call
\* answered has issued exactly one remote list call and returns the records
\* of the first page only: with a next-page token in the response, no second
\* call is made and no record of a later page is returned.
C12_FirstPageOnly ==
    (last.op \in ListOps /\ last.error \notin AuthErrors \cup CallOutcomes) =>
        /\ Len(last.calls) = 1
        /\ last.outcome = "returned"
        /\ last.result = (IF Listed = <<>> THEN <<>> ELSE Listed[1])
        /\ \A k \in 2..Len(Listed) : Records(Listed[k]) \cap Records(last.result) = {}

\* The same for the list operations of the Drive and Gmail clients alone.
FirstPageOnlyInDriveAndGmail == (last.api \in {"drive", "gmail"}) => C12_FirstPageOnly

CriteriaOrder ==
    <<"from_email", "to_email", "subject", "after_date", "before_date",
      "has_attachment", "is_unread">>

ClauseOf(c, k) ==
    CASE k = "from_email"     -> "from:" \o c[k][1]
      [] k = "to_email"       -> "to:" \o c[k][1]
      [] k = "subject"        -> "subject:" \o c[k][1]
      [] k = "after_date"     -> "after:" \o c[k][1]
      [] k = "before_date"    -> "before:" \o c[k][1]
      [] k = "has_attachment" -> "has:attachment"
      [] k = "is_unread"      -> "is:unread"

\* The clauses of the criteria in `given`, in the fixed order, a single space
\* between one clause and the next.
RECURSIVE QueryOver(_, _, _, _)
QueryOver(c, given, i, sofar) ==
    IF i > Len(CriteriaOrder) THEN sofar
    ELSE IF CriteriaOrder[i] \notin given THEN QueryOver(c, given, i + 1, sofar)
    ELSE QueryOver(c, given, i + 1,
                   IF sofar = "" THEN ClauseOf(c, CriteriaOrder[i])
                   ELSE sofar \o " " \o ClauseOf(c, CriteriaOrder[i]))

\* The criteria a call supplied: every argument that is not None.
SuppliedCriteria(c) == {k \in DOMAIN c : c[k] # <<>>}

\* The criteria a call gave a true value: a non-empty string, or True.
TrueCriteria(c) ==
    {k \in SuppliedCriteria(c) :
        IF k \in {"has_attachment", "is_unread"} THEN c[k][1] ELSE c[k][1] # ""}

SearchedMessages == last.op = "search_messages" /\ last.request # <<>>

NoCriteria == [k \in {CriteriaOrder[i] : i \in DOMAIN CriteriaOrder} |-> <<>>]

\* C15 as stated: the query search_messages passes to list_messages holds
\* exactly one clause for each criterion that was supplied and none for a
\* criterion that was not, the clauses joined by single spaces in the fixed order.
C15_ClausePerSuppliedCriterion ==
    SearchedMessages =>
        last.request = <<QueryOver(last.input[1], SuppliedCriteria(last.input[1]), 1, "")>>

\* C15 amended: the query holds exactly one clause for each criterion given a
\* non-empty string or True, and none for a criterion that is absent, an empty
\* string or False, the clauses joined by single spaces in the fixed order;
\* from_email="a@x.com", is_unread=True yields "from:a@x.com is:unread" and no
\* criteria yields the empty query.
C15_ClausePerTrueCriterion ==
    SearchedMessages =>
        LET c == last.input[1]
        IN  /\ last.request = <<QueryOver(c, TrueCriteria(c), 1, "")>>
            /\ last.calls[1].name = "messages.list"
            /\ (c = [NoCriteria EXCEPT !.from_email = <<"a@x.com">>,
                                       !.is_unread = <<TRUE>>])
                  => last.request = <<"from:a@x.com is:unread">>
            /\ (c = NoCriteria) => last.request = <<"">>

\* is_unread=False was supplied next to a sender, and the query names the
\* sender only.
C15_Witness ==
    /\ SearchedMessages /\ last.outcome = "returned"
    /\ last.input[1] = [NoCriteria EXCEPT !.from_email = <<"a@x.com">>,
                                          !.is_unread = <<FALSE>>]
    /\ last.request = <<"from:a@x.com">>

FilesClauseOrder == <<"name_contains", "mime_type", "folder_id", "trashed">>

FilesClauseOf(c, k) ==
    CASE k = "name_contains" -> "name contains '" \o c[k][1] \o "'"
      [] k = "mime_type"     -> "mimeType = '" \o c[k][1] \o "'"
      [] k = "folder_id"     -> "'" \o c[k][1] \o "' in parents"
      [] k = "trashed"       -> "trashed = false"

\* The clauses of the arguments in `present`, in the fixed order, " and " between
\* one clause and the next; no query at all when there is no clause.
RECURSIVE FilesQueryOver(_, _, _, _)
FilesQueryOver(c, present, i, sofar) ==
    IF i > Len(FilesClauseOrder) THEN sofar
    ELSE IF FilesClauseOrder[i] \notin present THEN FilesQueryOver(c, present, i + 1, sofar)
    ELSE FilesQueryOver(c, present, i + 1,
                        IF sofar = <<>> THEN <<FilesClauseOf(c, FilesClauseOrder[i])>>
                        ELSE <<sofar[1] \o " and "
                               \o FilesClauseOf(c, FilesClauseOrder[i])>>)

NotTrashed(c) == IF ~c.trashed THEN {"trashed"} ELSE {}

\* The clauses of a call when every argument that is not None has one.
SuppliedFilesClauses(c) ==
    {k \in {"name_contains", "mime_type", "folder_id"} : c[k] # <<>>} \cup NotTrashed(c)

\* The clauses of a call when every argument that is a non-empty string has one.
NonEmptyFilesClauses(c) ==
    {k \in {"name_contains", "mime_type", "folder_id"} : c[k] # <<>> /\ c[k][1] # ""}
    \cup NotTrashed(c)

SearchedFiles == last.op = "search_files" /\ last.calls # <<>>

\* C23 as stated: the query search_files passes to list_files is the clauses of
\* the supplied arguments (name_contains, mime_type, folder_id, each when it is
\* not None, and "trashed = false" when trashed is false) joined by " and " in
\* the order name, mimeType, parents, trashed, and None when there is no clause.
C23_ClausePerSuppliedArgument ==
    SearchedFiles =>
        last.request = FilesQueryOver(last.input[1], SuppliedFilesClauses(last.input[1]),
                                      1, <<>>)

\* C23 amended: a clause appears for name_contains, mime_type and folder_id
\* exactly when the argument is a non-empty string (None and "" add none),
\* "trashed = false" exactly when trashed is false; the clauses are joined by
\* " and " in the order name, mimeType, parents, trashed; the query is None, never
\* an empty string, exactly when no clause is present; and it is passed to the
\* one files().list call as it is.
C23_ClausePerNonEmptyArgument ==
    SearchedFiles =>
        LET c == last.input[1]
        IN  /\ last.request = FilesQueryOver(c, NonEmptyFilesClauses(c), 1, <<>>)
            /\ last.request = <<>> <=> NonEmptyFilesClauses(c) = {}
            /\ last.request # <<"">>
            /\ last.calls[1].name = "files.list"

\* A name and a folder were given, trashed files left out: three clauses, in
\* order.
C23_Witness ==
    /\ SearchedFiles /\ last.outcome = "returned"
    /\ last.input[1] = [name_contains |-> <<"r">>, mime_type |-> <<>>,
                        folder_id |-> <<"F">>, trashed |-> FALSE]
    /\ last.request = <<"name contains 'r' and 'F' in parents and trashed = false">>

\* Nothing was given and trashed files were asked for: no query is passed.
NoQueryReached ==
    /\ SearchedFiles /\ last.outcome = "returned"
    /\ last.input[1] = [name_contains |-> <<>>, mime_type |-> <<>>,
                        folder_id |-> <<>>, trashed |-> TRUE]
    /\ last.request = <<>>

----------------------------------------------------------------------------
(* Properties of upload and download, checked under SpecStore *)

\* C14: round trip.  upload_content(c, n) that returns has stored, under the id
\* of the record it returns, exactly c for a byte string and the UTF-8 encoding
\* of c for a text string; no operation changes the content of a file already
\* stored; and download_file(id) that returns, returns exactly the stored
\* bytes, the concatenation of all chunks in order, whatever their number.
C14_RoundTrip ==
    [][/\ (last'.op = "upload_content" /\ last'.outcome = "returned") =>
            LET c == last'.input[1]
            IN  /\ last'.result[1].id \notin DOMAIN remote.files
                /\ remote'.files[last'.result[1].id].content =
                      IF c[1] = "bytes" THEN c[2] ELSE encode_utf8(c[2])
       /\ \A id \in DOMAIN remote.files :
            id \in DOMAIN remote'.files
            /\ remote'.files[id].content = remote.files[id].content
       /\ (last'.op = "download_file" /\ last'.outcome = "returned") =>
            /\ last'.result = remote.files[last'.input[1]].content
            /\ Len(last'.calls) = Len(last'.input[2]) + 1]_vars

\* The text "e-acute" was uploaded and has come back, in two chunks, as its two
\* UTF-8 bytes.
C14_Witness ==
    /\ last.op = "download_file" /\ last.outcome = "returned"
    /\ last.input[1] \notin DOMAIN StartRemote.files
    /\ last.input[2] = <<1>>
    /\ Len(last.calls) = 2
    /\ last.result = <<195, 169>>

----------------------------------------------------------------------------
(* Properties of reading documents and messages, checked under SpecRead *)

RECURSIVE Concat(_)
Concat(strings) == IF strings = <<>> THEN "" ELSE Head(strings) \o Concat(Tail(strings))

\* The text of one paragraph: the contents of its text runs, in order.
ParagraphText(p) ==
    LET IsTextRun(e) == e.kind = "textRun"
        runs == SelectSeq(p.elements, IsTextRun)
    IN  Concat([i \in DOMAIN runs |-> runs[i].content])

\* The text of a body: the texts of its top-level paragraphs, in order.
TopLevelText(body) ==
    LET IsParagraph(e) == e.type = "paragraph"
        paragraphs == SelectSeq(body, IsParagraph)
    IN  Concat([i \in DOMAIN paragraphs |-> ParagraphText(paragraphs[i])])

\* C16: read_document_text that returns, returns the concatenation, in document
\* order, of the content of exactly the text runs inside top-level paragraphs
\* of the body (tables, images and section breaks contribute nothing), and
\* leaves the document as it was, so that a second call on the unchanged
\* document returns the same string; a paragraph with the run "Hello" followed
\* by a table yields "Hello".
C16_TextOfTopLevelParagraphs ==
    [][(last'.op = "read_document_text" /\ last'.outcome = "returned") =>
          LET body == remote.files[last'.input[1]].body
          IN  /\ last'.result = <<TopLevelText(body)>>
              /\ remote' = remote
              /\ (body = <<Paragraph(<<TextRun("Hello")>>),
                           Table(<<Paragraph(<<TextRun("cell")>>)>>)>>)
                    => last'.result = <<"Hello">>]_vars

C16_Witness ==
    /\ last.op = "read_document_text" /\ last.outcome = "returned"
    /\ remote.files[last.input[1]].body =
          <<Paragraph(<<TextRun("Hello")>>), Table(<<Paragraph(<<TextRun("cell")>>)>>)>>
    /\ last.result = <<"Hello">>

\* The decoded bodies of the non-empty text/plain parts of a message tree, at
\* any depth, in tree order.
RECURSIVE PlainTexts(_)
PlainTexts(part) ==
    LET below == IF part.parts = <<>> THEN <<>>
                 ELSE [i \in DOMAIN part.parts[1] |-> PlainTexts(part.parts[1][i])]
        RECURSIVE All(_)
        All(seqs) == IF seqs = <<>> THEN <<>> ELSE Head(seqs) \o All(Tail(seqs))
    IN  (IF part.mimeType = "text/plain" /\ part.data # <<>>
         THEN <<part.data[2]>> ELSE <<>>) \o All(below)

\* C17: get_message_body that returns, returns text decoded only from parts
\* whose content type is text/plain: for every message tree, multi-part at any
\* depth or a single part, the result is made of the bodies of the non-empty
\* text/plain parts in tree order (one per line) and of nothing else.
C17_OnlyPlainText ==
    (last.op = "get_message_body" /\ last.outcome = "returned") =>
        last.result = <<join("\n", PlainTexts(remote.messages[last.input[1]]))>>

\* The same for the messages that are multi-part or a single text/plain part.
OnlyPlainTextUnlessSingleOtherPart ==
    LET payload == remote.messages[last.input[1]]
    IN  (last.op = "get_message_body"
         /\ (payload.parts # <<>> \/ payload.mimeType = "text/plain"))
            => C17_OnlyPlainText

\* C19: append_text(document_id, text) that returns has appended the text to
\* the end of the document: the document's text after the call is its text
\* before the call followed by `text`.
C19_TextGoesToTheEnd ==
    [][(last'.op = "append_text" /\ last'.outcome = "returned") =>
          LET document_id == last'.input[1]
          IN  TopLevelText(remote'.files[document_id].body)
                = TopLevelText(remote.files[document_id].body) \o last'.input[2]]_vars

\* The positions, counted from 0, at which term occurs in text; the empty term
\* occurs at every position, the end of the text included.
Occurrences(text, term) ==
    {i \in 0..Len(text) :
        i + Len(term) <= Len(text) /\ SubSeq(text, i + 1, i + Len(term)) = term}

SearchedDocument == last.op = "search_in_document" /\ last.outcome = "returned"

\* C25: search_in_document comes to an end for every text and term (the empty
\* term and terms that overlap themselves included) and returns one match
\* {start_index, end_index = start_index + length of the term} for every
\* position of the extracted text at which the term occurs, overlapping
\* occurrences included, in ascending order of start_index and nothing else;
\* the document is left as it was.
C25_OneMatchPerOccurrence ==
    [][(last'.op = "search_in_document" /\ last'.outcome = "returned") =>
          LET text    == ExtractText(remote.files[last'.input[1]].body)
              term    == last'.input[2]
              matches == last'.result[1]
          IN  /\ {matches[k].start_index : k \in DOMAIN matches}
                    = Occurrences(text, term)
              /\ Len(matches) = Cardinality(Occurrences(text, term))
              /\ Len(matches) <= Len(text) + 1
              /\ \A k \in DOMAIN matches :
                    /\ matches[k].end_index = matches[k].start_index + Len(term)
                    /\ matches[k].text = term
                    /\ k > 1 => matches[k - 1].start_index < matches[k].start_index
              /\ remote' = remote]_vars

\* "xx" was searched in a text that holds it twice, overlapping: two matches,
\* one position apart.
C25_Witness ==
    /\ SearchedDocument /\ last.input[2] = "xx"
    /\ Len(last.result[1]) = 2
    /\ last.result[1][1].start_index + 1 = last.result[1][2].start_index
    /\ last.result[1][1].end_index > last.result[1][2].start_index

\* The empty term was searched in a text of three characters: four matches,
\* each of length 0.
EmptyTermSearchReached ==
    /\ SearchedDocument /\ last.input[2] = ""
    /\ Len(ExtractText(remote.files[last.input[1]].body)) = MaxText
    /\ Len(last.result[1]) = MaxText + 1

----------------------------------------------------------------------------
(* Properties of the interactive authorization paths, checked under SpecInteractive *)

InteractivePaths == {"authenticate", "auth_headless.main", "complete_auth"}

\* No authorization code can be extracted from a text: it is empty (or blank),
\* or it is a redirect URL whose query string carries no code.
NoCodeIn(t) ==
    \/ IsEmptyText(strip(t))
    \/ t.query # <<>> /\ \A i \in DOMAIN t.query :
                            ~(t.query[i][1] = "code" /\ t.query[i][2] # "")

\* The last call was an interactive authorization that got a text without a code.
GotTextWithoutCode ==
    /\ last.op \in InteractivePaths
    /\ last.input # <<>>
    /\ Has(last.events, "prompt") \/ last.op = "complete_auth"
    /\ NoCodeIn(last.input[1])

\* C20: in every interactive authorization path, when no authorization code
\* can be extracted from the pasted text, the failure is reported on the
\* console, no token exchange call is made, and the token file is neither
\* created nor modified.
C20_NoCodeIsReportedAndNothingExchanged ==
    GotTextWithoutCode =>
        /\ Has(last.events, "print_error")
        /\ ~Has(last.events, "exchange")
        /\ tokenFile = last.preFile

\* The same for the two scripts alone.
NoCodeIsReportedByTheScripts ==
    (last.op # "authenticate") => C20_NoCodeIsReportedAndNothingExchanged

====
